---- MODULE Spec2Model ----
(***************************************************************************)
(* Adaptive Context Index & Real-Time Delivery subsystem.                  *)
(*                                                                         *)
(* State machines over one set of variables:                               *)
(*   SpecReg      the session registry (app/database.py,                   *)
(*                WebSocketConnectionManager)                              *)
(*   SpecReq      the request coordinator                                  *)
(*                (app/services/realtime_service.py) on top of it          *)
(*   SpecFlow     the coordinator for one session id and one game;         *)
(*                SpecFlowFair adds weak fairness of its tasks             *)
(*   SpecStore    the per-game vector store                                *)
(*                (app/services/faiss_service.py) called from threads      *)
(*   SpecDurable  the store with score updates, rebuilds from the          *)
(*                database, restarts and writes that fail                  *)
(*   SpecScore    the store under inserts and score updates                *)
(*   SpecTenant   the stores of two games side by side                     *)
(*   SpecLock     get_or_create_index and rebuild_index_from_db            *)
(*                statement by statement                                   *)
(*   SpecOutcome  log_action_outcome                                       *)
(*                (app/services/adaptive_boss_service.py)                  *)
(*   SpecGen      the action generator                                     *)
(*                (app/services/jigsawstack_service.py)                    *)
(*   SpecAccept   the coordinator with connections that are set up while   *)
(*                others wait for the registry's lock                      *)
(*   SpecReport   the outcome reports of the websocket and REST channels   *)
(*   SpecThreshold the store of a game one insert short of the             *)
(*                auto-optimize threshold                                  *)
(*   SpecCache    the response cache of generate_boss_action               *)
(* Each specification leaves the variables of the other parts unchanged.   *)
(***************************************************************************)
EXTENDS Integers, Sequences, FiniteSets, TLC

VARIABLES
    \* ---- WebSocketConnectionManager (database.py:80-84)
    active_connections,   \* session_id -> websocket (a socket id)
    game_sessions,        \* game_id -> set of session_ids
    session_info,         \* session_id -> [game_id, connected_at]
    \* ---- the environment of the registry
    sockets,              \* socket id -> [sid, state]: every websocket accepted so far
    now,                  \* the clock (seconds)
    \* ---- history: the last registry call and what it returned
    last,
    \* ---- RealtimeAdaptiveBossService (realtime_service.py:25-38)
    active_requests,      \* request_id -> [session_id, game_id, start_time]
    worker,               \* request_id -> [pc, session_id, ws, failure]: the task of
                          \* _generate_boss_action_async made for the request
    \* ---- history of the coordinator
    outbox,               \* request_id -> the messages transmitted for it, in order
    swept,                \* the request_ids _cleanup_task removed as expired
    \* ---- FAISSService (faiss_service.py:21-32)
    indexes,              \* game_id -> the index object (its place in heap)
    metadata,             \* game_id -> list of [context_id, effectiveness_score,
                          \*            index_position, embedding], embedding
                          \*            being the normalized vector the entry
                          \*            was added with
    index_locks,          \* game_id -> the thread holding the lock, 0 when free
    entry_counts,         \* game_id -> entries added since the index was made
    \* ---- the environment of the store
    heap,                 \* every index object made so far: a list of
                          \* [vec, cid], cid being the context the vector was
                          \* added for
    thr,                  \* thread -> the call it is in and that call's locals
    calls,                \* the number of store calls begun
    last_mutation,        \* history: the last change made to a game's store
    disk,                 \* the files of index_path: [index, metadata], each
                          \* game_id -> what the game's file of the kind holds
    \* ---- the websocket_sessions table (models.py:100-121)
    ws_sessions,          \* session_id -> [last_heartbeat]
    \* ---- history of the sweep of _cleanup_task
    reaped,               \* [session_id, fresh] for every session it removed
    \* ---- JigsawStackService.generate_boss_action (jigsawstack_service.py:190-257)
    gen,                  \* call -> the inputs, the attempt it is at, what it
                          \*         returned and the message sent for it
    \* ---- the boss_actions table (models.py, BossAction)
    action_scores,        \* context_id -> the effectiveness_score of its actions
    reports,              \* the outcome reports handled so far, in order
    lock_waiters,         \* the handlers waiting for the manager's _lock, in order
    response_cache,       \* the boss_action:* keys of Redis -> the cached response
    answers               \* the non-realtime generate_boss_action calls, in order
                          \*               that have one, in the order reported

regVars == <<active_connections, game_sessions, session_info>>
reqVars == <<active_requests, worker, outbox, swept>>
storeVars == <<indexes, metadata, index_locks, entry_counts, heap, thr, calls,
               last_mutation, disk>>
dbVars == <<ws_sessions, reaped>>
genVars == <<gen>>
lockVars == <<lock_waiters>>
cacheVars == <<response_cache, answers>>
logVars == <<action_scores, reports>>
vars == <<active_connections, game_sessions, session_info, sockets, now, last,
          active_requests, worker, outbox, swept,
          indexes, metadata, index_locks, entry_counts, heap, thr, calls, disk,
          last_mutation, ws_sessions, reaped, gen, action_scores, reports, lock_waiters,
          response_cache, answers>>

(***************************************************************************)
(* Bounds and inputs                                                       *)
(***************************************************************************)
Sessions == {"s1", "s2"}
Games == {"gA", "gB"}
MaxSockets == 3
MaxRequests == 1
\* the websockets accepted in a run of the request coordinator
ReqSocketIds == {1, 2}
\* the instants at which something happens: 12 s is past the request deadline
\* (10 s) of a request made at 0; 306 s is past the session timeout (300 s) of
\* a session connected at 0 and within it for one connected at 12
ClockValues == {0, 12, 306}
NoGame == "none"
NoSession == "none"

\* settings.websocket_timeout
websocket_timeout == 300
\* settings.realtime_action_timeout
realtime_action_timeout == 10
\* timeout_seconds arguments given to cleanup_inactive_sessions
SweepTimeouts == {5, websocket_timeout}

\* ---- the store
\* the threads that call the store (the executor's workers and the event loop)
Threads == {1, 2}
MaxCalls == 4
StoreGames == {"gA"}
\* settings.embedding_dimension
dimension == 1536
\* the largest dimension for which _create_new_index makes an IndexFlatIP
flat_index_dimension == 512
\* embeddings: a direction (a quarter turn each), a length, and the number d
\* of components of the array
InputVectors == {[dir |-> 0, mag |-> 2, d |-> dimension],
                 [dir |-> 1, mag |-> 1, d |-> dimension]}
\* the contexts given to add_context; effectiveness scores are in tenths
InputContexts ==
    {[context_id |-> 1, embedding |-> [dir |-> 0, mag |-> 2, d |-> dimension],
      effectiveness_score |-> 1],
     [context_id |-> 2, embedding |-> [dir |-> 1, mag |-> 1, d |-> dimension],
      effectiveness_score |-> 5],
     [context_id |-> 3, embedding |-> [dir |-> 0, mag |-> 2, d |-> dimension],
      effectiveness_score |-> 2],
     [context_id |-> 4, embedding |-> [dir |-> 0, mag |-> 1, d |-> dimension],
      effectiveness_score |-> 5],
     [context_id |-> 5, embedding |-> [dir |-> 1, mag |-> 1, d |-> dimension - 1],
      effectiveness_score |-> 5]}
\* k arguments of a search
InputK == {1, 2}
\* AdaptiveBossService.min_effectiveness_score, in tenths
min_effectiveness_score == 3
\* the min_effectiveness _auto_optimize_index passes, in tenths
auto_optimize_min_effectiveness == 2
\* FAISSService.auto_optimize_threshold
auto_optimize_threshold == 100
\* the min_effectiveness arguments search_similar_contexts is called with
SearchThresholds == {2, min_effectiveness_score}
\* how a _save_index ends: both files written, the index file written and
\* the write of the metadata file failed, or the write of the index file
\* failed (the metadata file is then not written)
SaveOutcomes == {"saved", "index_only", "failed"}
NoVector == [dir |-> 0, mag |-> 0, d |-> 0]
\* the arguments update_effectiveness_score is called with
InputUpdates == {[context_id |-> 1, new_score |-> 5],
                 [context_id |-> 2, new_score |-> 1]}
\* what the query of rebuild_index_from_db for the game's contexts gives:
\* nothing, or three contexts, one of them without embedding_vector; scores
\* are the effectiveness scores of the context's actions
InputRecords ==
    {<<>>,
     <<[context_id |-> 1, embedding_vector |-> [dir |-> 0, mag |-> 2, d |-> dimension],
        scores |-> <<1>>],
       [context_id |-> 6, embedding_vector |-> NoVector, scores |-> <<>>],
       [context_id |-> 3, embedding_vector |-> [dir |-> 0, mag |-> 2, d |-> dimension],
        scores |-> <<1, 3>>]>>}
\* the min_effectiveness arguments remove_ineffective_contexts is called with
RemoveThresholds == {auto_optimize_min_effectiveness, min_effectiveness_score}

\* a thread that is in no call; result and ret are those of its last call;
\* contexts is what the database gave its rebuild_index_from_db, which was
\* call number `at`; lock tells, in the statement-by-statement runs of
\* get_or_create_index and rebuild_index_from_db, which lock object the
\* thread holds: the one self.index_locks has for the game ("dict") or one
\* that is not, or no longer, in self.index_locks ("private")
IdleThread == [pc |-> "idle", op |-> "none", game |-> NoGame, index |-> 0,
               context_id |-> 0, embedding |-> NoVector,
               effectiveness_score |-> 0, k |-> 0,
               min_effectiveness |-> 0, old_index |-> 0, old_metadata |-> <<>>,
               overlap |-> FALSE, result |-> <<>>, ret |-> 0,
               contexts |-> <<>>, at |-> 0, lock |-> "none"]

\* no change was made to any store yet; else op is "add" or "remove", and
\* for an add the rest is the entry added
NoMutation == [op |-> "none", game |-> NoGame, context_id |-> 0,
               embedding |-> NoVector, effectiveness_score |-> 0]

Restrict(f, S) == [x \in S |-> f[x]]

RECURSIVE FoldSet(_, _, _)
\* Op(acc, x) applied over the elements of S, in some order
FoldSet(Op(_, _), acc, S) ==
    IF S = {} THEN acc
    ELSE LET x == CHOOSE y \in S : TRUE
         IN FoldSet(Op, Op(acc, x), S \ {x})

(***************************************************************************)
(* WebSocketConnectionManager                                              *)
(***************************************************************************)
\* the three dictionaries as one value
Reg == [ac |-> active_connections, gs |-> game_sessions, si |-> session_info]

\* get_session_info(session_id).get('game_id')
session_game(reg, sid) ==
    IF sid \in DOMAIN reg.si THEN reg.si[sid].game_id ELSE NoGame

\* connect, after websocket.accept() returned: the entry is written
\* unconditionally, whatever the dictionaries hold for session_id
connect(reg, ws, sid, game, t) ==
    [ac |-> [x \in DOMAIN reg.ac \cup {sid} |-> IF x = sid THEN ws ELSE reg.ac[x]],
     gs |-> [g \in DOMAIN reg.gs \cup {game} |->
                IF g = game
                THEN (IF g \in DOMAIN reg.gs THEN reg.gs[g] ELSE {}) \cup {sid}
                ELSE reg.gs[g]],
     si |-> [x \in DOMAIN reg.si \cup {sid} |->
                IF x = sid THEN [game_id |-> game, connected_at |-> t]
                ELSE reg.si[x]]]

\* disconnect: nothing when session_id is not in active_connections
disconnect(reg, sid) ==
    IF sid \in DOMAIN reg.ac
    THEN LET game == session_game(reg, sid)
             gs1 == IF game # NoGame /\ game \in DOMAIN reg.gs
                    THEN LET members == reg.gs[game] \ {sid}
                         IN IF members = {}
                            THEN Restrict(reg.gs, DOMAIN reg.gs \ {game})
                            ELSE [reg.gs EXCEPT ![game] = members]
                    ELSE reg.gs
         IN [ac |-> Restrict(reg.ac, DOMAIN reg.ac \ {sid}),
             gs |-> gs1,
             si |-> Restrict(reg.si, DOMAIN reg.si \ {sid})]
    ELSE reg

\* websocket.send_json succeeds on an open socket and raises on a broken one
Transmits(socks, ws) == socks[ws].state = "open"

\* send_personal_message: [reg, ret, tx, ws]; tx tells whether a transmission
\* was attempted ("ok", "fail") or not ("none": the session is not registered)
send_personal_message(reg, socks, sid) ==
    IF sid \in DOMAIN reg.ac
    THEN LET ws == reg.ac[sid]
         IN IF Transmits(socks, ws)
            THEN [reg |-> reg, ret |-> TRUE, tx |-> "ok", ws |-> ws]
            ELSE [reg |-> disconnect(reg, sid), ret |-> FALSE, tx |-> "fail", ws |-> ws]
    ELSE [reg |-> reg, ret |-> FALSE, tx |-> "none", ws |-> 0]

\* one turn of the loop of broadcast_to_game
BroadcastStep(socks, acc, sid) ==
    LET r == send_personal_message(acc.reg, socks, sid)
    IN [reg |-> r.reg,
        sent_count |-> IF r.ret THEN acc.sent_count + 1 ELSE acc.sent_count,
        delivered |-> IF r.ret THEN acc.delivered \cup {sid} ELSE acc.delivered,
        sessions_to_remove |-> IF r.ret THEN acc.sessions_to_remove
                               ELSE acc.sessions_to_remove \cup {sid}]

\* broadcast_to_game: [reg, sent_count, delivered, sessions_to_remove, targets]
broadcast_to_game(reg, socks, game, exclude) ==
    IF game \notin DOMAIN reg.gs
    THEN [reg |-> reg, sent_count |-> 0, delivered |-> {},
          sessions_to_remove |-> {}, targets |-> {}]
    ELSE LET targets == reg.gs[game] \ {exclude}
             step(acc, sid) == BroadcastStep(socks, acc, sid)
             looped == FoldSet(step, [reg |-> reg, sent_count |-> 0, delivered |-> {},
                                      sessions_to_remove |-> {}], targets)
             cleaned == FoldSet(disconnect, looped.reg, looped.sessions_to_remove)
         IN [reg |-> cleaned, sent_count |-> looped.sent_count,
             delivered |-> looped.delivered,
             sessions_to_remove |-> looped.sessions_to_remove,
             targets |-> targets]

\* the sessions cleanup_inactive_sessions collects
InactiveSessions(reg, t, timeout) ==
    {sid \in DOMAIN reg.si : t - reg.si[sid].connected_at > timeout}

\* cleanup_inactive_sessions: [reg, ret]
cleanup_inactive_sessions(reg, t, timeout) ==
    LET stale == InactiveSessions(reg, t, timeout)
    IN [reg |-> FoldSet(disconnect, reg, stale), ret |-> Cardinality(stale)]

SetReg(reg) ==
    /\ active_connections' = reg.ac
    /\ game_sessions' = reg.gs
    /\ session_info' = reg.si

\* present: session_id was in active_connections when the call began;
\* changed: the call changed one of the three dictionaries
NoLast == [op |-> "init", sid |-> NoSession, game |-> NoGame, ret |-> 0, tx |-> "none",
           present |-> FALSE, changed |-> FALSE, delivered |-> {}, failed |-> {}]

\* the record of a call on session sid that turned the registry into reg
Called(op, sid, reg) ==
    [NoLast EXCEPT !.op = op, !.sid = sid,
                   !.present = sid \in DOMAIN active_connections,
                   !.changed = reg # Reg]

\* the history of registry calls is kept while the registry is driven
\* directly (recording) and left alone while the coordinator drives it
Record(call) == last' = IF last.op = "off" THEN last ELSE call

(***************************************************************************)
(* Registry operations as actions                                          *)
(***************************************************************************)
\* WebSocketConnectionManager.connect(websocket, session_id, game_id): a new
\* websocket object; accept() may raise, and then nothing is registered
Connect(sid, game, accepted) ==
    /\ Len(sockets) < MaxSockets
    /\ LET ws == Len(sockets) + 1
           reg == IF accepted THEN connect(Reg, ws, sid, game, now) ELSE Reg
       IN /\ sockets' = IF accepted
                         THEN Append(sockets, [sid |-> sid, state |-> "open"])
                         ELSE sockets
          /\ SetReg(reg)
          /\ Record([Called("connect", sid, reg) EXCEPT
                         !.game = game, !.ret = IF accepted THEN "ok" ELSE "error"])
    /\ UNCHANGED <<now, reqVars, storeVars, genVars, logVars, lockVars, cacheVars, dbVars>>

\* WebSocketConnectionManager.disconnect(session_id)
Disconnect(sid) ==
    /\ SetReg(disconnect(Reg, sid))
    /\ Record([Called("disconnect", sid, disconnect(Reg, sid)) EXCEPT !.ret = "ok"])
    /\ UNCHANGED <<sockets, now, reqVars, storeVars, genVars, logVars, lockVars, cacheVars, dbVars>>

\* the peer of an open socket goes away: later sends on it raise
Break(ws) ==
    /\ ws \in 1..Len(sockets)
    /\ sockets[ws].state = "open"
    /\ sockets' = [sockets EXCEPT ![ws].state = "broken"]
    /\ UNCHANGED <<regVars, now, last, reqVars, storeVars, genVars, logVars, lockVars, cacheVars, dbVars>>

\* WebSocketConnectionManager.send_personal_message(message, session_id)
SendPersonal(sid) ==
    LET r == send_personal_message(Reg, sockets, sid)
    IN /\ SetReg(r.reg)
       /\ Record([Called("send", sid, r.reg) EXCEPT !.ret = r.ret, !.tx = r.tx])
       /\ UNCHANGED <<sockets, now, reqVars, storeVars, genVars, logVars, lockVars, cacheVars, dbVars>>

\* WebSocketConnectionManager.broadcast_to_game(message, game_id, exclude_session)
Broadcast(game, exclude) ==
    LET r == broadcast_to_game(Reg, sockets, game, exclude)
    IN /\ SetReg(r.reg)
       /\ Record([Called("broadcast", exclude, r.reg) EXCEPT
                                 !.game = game,
                                 !.ret = r.sent_count,
                                 !.delivered = r.delivered,
                                 !.failed = r.sessions_to_remove])
       /\ UNCHANGED <<sockets, now, reqVars, storeVars, genVars, logVars, lockVars, cacheVars, dbVars>>

\* WebSocketConnectionManager.cleanup_inactive_sessions(timeout_seconds)
CleanupInactive(timeout) ==
    LET r == cleanup_inactive_sessions(Reg, now, timeout)
    IN /\ SetReg(r.reg)
       /\ Record([Called("cleanup", NoSession, r.reg) EXCEPT !.ret = r.ret])
       /\ UNCHANGED <<sockets, now, reqVars, storeVars, genVars, logVars, lockVars, cacheVars, dbVars>>

\* time passes
Tick ==
    /\ \E t \in ClockValues : t > now /\ now' = t
    /\ UNCHANGED <<regVars, sockets, last, reqVars, storeVars, genVars, logVars, lockVars, cacheVars, dbVars>>

InitFiles(history, files) ==
    /\ active_connections = <<>>
    /\ game_sessions = <<>>
    /\ session_info = <<>>
    /\ sockets = <<>>
    /\ now = 0
    /\ last = [NoLast EXCEPT !.op = history]
    /\ active_requests = <<>>
    /\ worker = <<>>
    /\ outbox = <<>>
    /\ swept = {}
    /\ indexes = <<>>
    /\ metadata = <<>>
    /\ index_locks = <<>>
    /\ entry_counts = <<>>
    /\ heap = <<>>
    /\ thr = [t \in Threads |-> IdleThread]
    /\ calls = 0
    /\ last_mutation = NoMutation
    /\ disk = files
    /\ ws_sessions = <<>>
    /\ reaped = {}
    /\ gen = <<>>
    /\ action_scores = <<>>
    /\ reports = <<>>
    /\ lock_waiters = <<>>
    /\ response_cache = <<>>
    /\ answers = <<>>

\* the state after construction in a directory without index files
InitState(history) == InitFiles(history, [index |-> <<>>, metadata |-> <<>>])

InitReg == InitState("init")

RegConnect == \E sid \in Sessions, game \in Games, accepted \in BOOLEAN :
                  Connect(sid, game, accepted)
RegDisconnect == \E sid \in Sessions : Disconnect(sid)
RegBreak == \E ws \in 1..MaxSockets : Break(ws)
RegSend == \E sid \in Sessions : SendPersonal(sid)
RegBroadcast == \E game \in Games, exclude \in Sessions \cup {NoSession} :
                    Broadcast(game, exclude)
RegCleanup == \E timeout \in SweepTimeouts : CleanupInactive(timeout)

NextReg ==
    \/ RegConnect
    \/ RegDisconnect
    \/ RegBreak
    \/ RegSend
    \/ RegBroadcast
    \/ RegCleanup
    \/ Tick

SpecReg == InitReg /\ [][NextReg]_vars

(***************************************************************************)
(* Claims about the session registry (checked under SpecReg)               *)
(***************************************************************************)
\* the games whose group holds sid
GroupsOf(sid) == {g \in DOMAIN game_sessions : sid \in game_sessions[g]}

\* C6: a Connect whose sessionID is already in the registry is rejected with
\* DuplicateSession and changes none of the three dictionaries
CX_C6_DuplicateConnectRejected ==
    (last.op = "connect" /\ last.present) =>
        (last.ret = "DuplicateSession" /\ ~last.changed)

\* C7: a sessionID is in the global map iff it has a session-info record and
\* is in exactly one tenant group, the one of its recorded tenant; no group
\* holds a sessionID that is absent from the map or recorded under another
\* tenant
CX_C7_RegistryConsistent ==
    /\ \A sid \in Sessions :
          sid \in DOMAIN active_connections
              <=> (sid \in DOMAIN session_info
                   /\ GroupsOf(sid) = {session_info[sid].game_id})
    /\ \A g \in DOMAIN game_sessions : \A sid \in game_sessions[g] :
          /\ sid \in DOMAIN active_connections
          /\ sid \in DOMAIN session_info
          /\ session_info[sid].game_id = g

\* C8: Disconnect never errors, changes nothing when the session is absent,
\* and afterwards the sessionID is in neither the global map nor any tenant
\* group
CX_C8_DisconnectIdempotent ==
    last.op = "disconnect" =>
        /\ last.ret = "ok"
        /\ (~last.present => ~last.changed)
        /\ last.sid \notin DOMAIN active_connections
        /\ GroupsOf(last.sid) = {}

\* C9: a Send whose transmission fails returns false with the session out of
\* the global map and out of the tenant groups; a Send whose transmission
\* succeeds returns true and changes nothing
CX_C9_SendFailureDisconnects ==
    last.op = "send" =>
        /\ last.tx = "fail" =>
              /\ last.ret = FALSE
              /\ last.sid \notin DOMAIN active_connections
              /\ GroupsOf(last.sid) = {}
        /\ last.tx = "ok" => (last.ret = TRUE /\ ~last.changed)

\* C10: Broadcast returns the number of successful sends, never sends to the
\* excluded session, leaves every session whose send failed out of the
\* registry and every session whose send succeeded registered
CX_C10_BroadcastCountsAndCleans ==
    last.op = "broadcast" =>
        /\ last.ret = Cardinality(last.delivered)
        /\ last.sid \notin (last.delivered \cup last.failed)
        /\ \A sid \in last.failed :
              sid \notin DOMAIN active_connections /\ GroupsOf(sid) = {}
        /\ \A sid \in last.delivered : sid \in DOMAIN active_connections

\* C30: a broadcast to a game is delivered only to sessions registered under
\* that game.
CX_C30_BroadcastWithinGame ==
    last.op = "broadcast" =>
        \A sid \in last.delivered :
            /\ sid \in DOMAIN session_info
            /\ session_info[sid].game_id = last.game

(***************************************************************************)
(* RealtimeAdaptiveBossService: the request coordinator                    *)
(***************************************************************************)
\* a message handed to send_personal_message reaches the outbox when it was
\* transmitted; swept tells whether _cleanup_task had removed the request
\* before the message was sent
Emit(box, r, kind, rid, sid) ==
    LET sofar == IF rid \in DOMAIN box THEN box[rid] ELSE <<>>
        msgs == IF r.tx = "ok"
                THEN Append(sofar, [kind |-> kind, session_id |-> sid, ws |-> r.ws,
                                    swept |-> rid \in swept])
                ELSE sofar
    IN [x \in DOMAIN box \cup {rid} |-> IF x = rid THEN msgs ELSE box[x]]

\* self.active_requests.pop that removes nothing
M_C22_pop(reqs, rid) == reqs

\* self.active_requests.pop(request_id, None)
pop(reqs, rid) == Restrict(reqs, DOMAIN reqs \ {rid})

\* _handle_boss_action_request that sends no acknowledgement
M_C21_Submit(ws, valid) ==
    /\ ws \in 1..Len(sockets)
    /\ sockets[ws].state = "open"
    /\ Len(worker) < MaxRequests
    /\ LET sid == sockets[ws].sid
           rid == Len(worker) + 1
           game == session_game(Reg, sid)
           accepted == valid /\ game # NoGame
       IN /\ active_requests' =
                IF accepted
                THEN [x \in DOMAIN active_requests \cup {rid} |->
                         IF x = rid
                         THEN [session_id |-> sid, game_id |-> game, start_time |-> now]
                         ELSE active_requests[x]]
                ELSE active_requests
          /\ worker' = Append(worker, [pc |-> IF accepted THEN "scheduled" ELSE "none",
                                       session_id |-> sid, ws |-> ws,
                                       failure |-> "none"])
          /\ outbox' = [x \in DOMAIN outbox \cup {rid} |->
                           IF x = rid THEN <<>> ELSE outbox[x]]
    /\ UNCHANGED <<regVars, sockets, now, last, swept, storeVars, genVars, logVars, lockVars, cacheVars, dbVars>>

\* _handle_boss_action_request that stores the request before it looks at it
M_C36_Submit(ws, valid) ==
    /\ ws \in 1..Len(sockets)
    /\ sockets[ws].state = "open"
    /\ Len(worker) < MaxRequests
    /\ LET sid == sockets[ws].sid
           rid == Len(worker) + 1
           game == session_game(Reg, sid)
           accepted == valid /\ game # NoGame
           r == send_personal_message(Reg, sockets, sid)
       IN /\ active_requests' =
                [x \in DOMAIN active_requests \cup {rid} |->
                    IF x = rid
                    THEN [session_id |-> sid, game_id |-> game, start_time |-> now]
                    ELSE active_requests[x]]
          /\ worker' = Append(worker, [pc |-> IF accepted THEN "scheduled" ELSE "none",
                                       session_id |-> sid, ws |-> ws,
                                       failure |-> "none"])
          /\ outbox' = Emit(outbox, r, IF accepted THEN "processing" ELSE "error", rid, sid)
          /\ SetReg(r.reg)
    /\ UNCHANGED <<sockets, now, last, swept, storeVars, genVars, logVars, lockVars, cacheVars, dbVars>>

\* _handle_boss_action_request(session_id, request_data), called by the
\* message loop of an open websocket: a fresh request_id; a request that does
\* not parse or a session without game_id is answered with an error; else
\* the request is stored, the worker task is created and the `processing`
\* acknowledgement is sent
Submit(ws, valid) ==
    /\ ws \in 1..Len(sockets)
    /\ sockets[ws].state = "open"
    /\ Len(worker) < MaxRequests
    /\ LET sid == sockets[ws].sid
           rid == Len(worker) + 1
           game == session_game(Reg, sid)
           accepted == valid /\ game # NoGame
           r == send_personal_message(Reg, sockets, sid)
       IN /\ active_requests' =
                IF accepted
                THEN [x \in DOMAIN active_requests \cup {rid} |->
                         IF x = rid
                         THEN [session_id |-> sid, game_id |-> game, start_time |-> now]
                         ELSE active_requests[x]]
                ELSE active_requests
          /\ worker' = Append(worker, [pc |-> IF accepted THEN "scheduled" ELSE "none",
                                       session_id |-> sid, ws |-> ws,
                                       failure |-> "none"])
          /\ outbox' = Emit(outbox, r, IF accepted THEN "processing" ELSE "error", rid, sid)
          /\ SetReg(r.reg)
    /\ UNCHANGED <<sockets, now, last, swept, storeVars, genVars, logVars, lockVars, cacheVars, dbVars>>

\* what AdaptiveBossService.generate_boss_action does for the worker: it
\* returns the action, or create_context_embedding raises (the embedding
\* provider is unavailable) and the except clause rolls back and re-raises,
\* or it raises for another reason (no game, no active prompt, the database)
GenerateOutcomes == {"action", "embedding_unavailable", "raised"}

\* _generate_boss_action_async up to its first send: generate_boss_action
\* returns and the boss_action_response is sent, or it raises and the except
\* clause sends an error
WorkerRun(rid, generated) ==
    /\ rid \in 1..Len(worker)
    /\ worker[rid].pc = "scheduled"
    /\ LET sid == worker[rid].session_id
           r == send_personal_message(Reg, sockets, sid)
       IN /\ outbox' = Emit(outbox, r,
                            IF generated = "action" THEN "boss_action_response" ELSE "error",
                            rid, sid)
          /\ SetReg(r.reg)
    /\ worker' = [worker EXCEPT ![rid].pc = IF generated = "action" THEN "responded"
                                            ELSE "errored",
                                ![rid].failure = IF generated = "action" THEN "none"
                                                 ELSE generated]
    /\ UNCHANGED <<sockets, now, last, active_requests, swept, storeVars, genVars, logVars, lockVars, cacheVars, dbVars>>

\* after the response: realtime_cache.set_realtime_action returns and the
\* finally clause pops the request, or it raises and the except clause sends
\* an error for the same request_id
WorkerCache(rid, cached) ==
    /\ rid \in 1..Len(worker)
    /\ worker[rid].pc = "responded"
    /\ IF cached
       THEN /\ active_requests' = pop(active_requests, rid)
            /\ worker' = [worker EXCEPT ![rid].pc = "done"]
            /\ UNCHANGED <<regVars, outbox>>
       ELSE LET sid == worker[rid].session_id
                r == send_personal_message(Reg, sockets, sid)
            IN /\ outbox' = Emit(outbox, r, "error", rid, sid)
               /\ SetReg(r.reg)
               /\ worker' = [worker EXCEPT ![rid].pc = "errored"]
               /\ UNCHANGED active_requests
    /\ UNCHANGED <<sockets, now, last, swept, storeVars, genVars, logVars, lockVars, cacheVars, dbVars>>

\* the finally clause after the except clause sent its error
WorkerFinally(rid) ==
    /\ rid \in 1..Len(worker)
    /\ worker[rid].pc = "errored"
    /\ active_requests' = pop(active_requests, rid)
    /\ worker' = [worker EXCEPT ![rid].pc = "done"]
    /\ UNCHANGED <<regVars, sockets, now, last, outbox, swept, storeVars, genVars, logVars, lockVars, cacheVars, dbVars>>

\* the last heartbeat of the session is no older than settings.websocket_timeout
HeartbeatFresh(sid) ==
    IF sid \in DOMAIN ws_sessions
    THEN now - ws_sessions[sid].last_heartbeat <= websocket_timeout
    ELSE FALSE

\* _handle_heartbeat(session_id), called by the message loop of an open
\* websocket: last_heartbeat of the session's row is set to the time of the
\* call and the heartbeat response is sent; session_info is not touched
Heartbeat(ws) ==
    /\ ws \in 1..Len(sockets)
    /\ sockets[ws].state = "open"
    /\ LET sid == sockets[ws].sid
           r == send_personal_message(Reg, sockets, sid)
       IN /\ ws_sessions' = IF sid \in DOMAIN ws_sessions
                            THEN [ws_sessions EXCEPT ![sid].last_heartbeat = now]
                            ELSE ws_sessions
          /\ SetReg(r.reg)
    /\ UNCHANGED <<sockets, now, last, reqVars, storeVars, genVars, logVars, lockVars, cacheVars, reaped>>

\* handle_websocket_connection(websocket, session_id, game_id) for a game the
\* games table holds: the manager registers the websocket, then the session
\* row is inserted; session_id is unique in the table and rows are never
\* deleted, so for a session_id seen before the commit raises and the except
\* clause calls disconnect; else the welcome message is sent
HandleConnection(sid, game) ==
    /\ Len(sockets) < MaxSockets
    /\ LET ws == Len(sockets) + 1
           socks == Append(sockets, [sid |-> sid, state |-> "open"])
           reg == connect(Reg, ws, sid, game, now)
       IN /\ sockets' = socks
          /\ IF sid \in DOMAIN ws_sessions
             THEN /\ SetReg(disconnect(reg, sid))
                  /\ UNCHANGED ws_sessions
             ELSE /\ SetReg(send_personal_message(reg, socks, sid).reg)
                  /\ ws_sessions' = [x \in DOMAIN ws_sessions \cup {sid} |->
                                        IF x = sid THEN [last_heartbeat |-> now]
                                        ELSE ws_sessions[x]]
    /\ UNCHANGED <<now, last, reqVars, storeVars, genVars, logVars, lockVars, cacheVars, reaped>>

\* the requests _cleanup_task finds expired
expired_requests(reqs, t) ==
    {rid \in DOMAIN reqs : t - reqs[rid].start_time > realtime_action_timeout}

\* one round of _cleanup_task: the inactive sessions are cleaned up, then the
\* expired requests are popped; nothing is sent
CleanupTask ==
    LET r == cleanup_inactive_sessions(Reg, now, websocket_timeout)
        expired == expired_requests(active_requests, now)
    IN /\ SetReg(r.reg)
       /\ active_requests' = Restrict(active_requests, DOMAIN active_requests \ expired)
       /\ swept' = swept \cup expired
       /\ reaped' = reaped \cup {[session_id |-> sid, fresh |-> HeartbeatFresh(sid)] :
                                     sid \in InactiveSessions(Reg, now, websocket_timeout)}
       /\ UNCHANGED <<sockets, now, last, worker, outbox, storeVars, genVars, logVars, lockVars, cacheVars, ws_sessions>>

\* handle_websocket_connection: the websocket is accepted and registered
ReqConnect == \E sid \in Sessions, game \in Games :
                  Len(sockets) + 1 \in ReqSocketIds /\ HandleConnection(sid, game)
ReqHeartbeat == \E ws \in ReqSocketIds : Heartbeat(ws)
ReqSubmit == \E ws \in ReqSocketIds, valid \in BOOLEAN : Submit(ws, valid)
ReqWorkerRun == \E rid \in 1..MaxRequests, generated \in GenerateOutcomes :
    WorkerRun(rid, generated)
ReqWorkerCache == \E rid \in 1..MaxRequests, cached \in BOOLEAN : WorkerCache(rid, cached)
ReqWorkerFinally == \E rid \in 1..MaxRequests : WorkerFinally(rid)

NextReq ==
    \/ ReqConnect
    \/ RegDisconnect
    \/ RegBreak
    \/ ReqHeartbeat
    \/ ReqSubmit
    \/ ReqWorkerRun
    \/ ReqWorkerCache
    \/ ReqWorkerFinally
    \/ CleanupTask
    \/ Tick

InitReq == InitState("off")

SpecReq == InitReq /\ [][NextReq]_vars

(***************************************************************************)
(* The coordinator serving one session id (on up to two websockets), and   *)
(* the same under fair scheduling of the worker tasks and of _cleanup_task *)
(***************************************************************************)
FlowSessions == {"s1"}
FlowConnect == \E sid \in FlowSessions, game \in StoreGames :
                   Len(sockets) + 1 \in ReqSocketIds /\ HandleConnection(sid, game)

NextFlow ==
    \/ FlowConnect
    \/ RegDisconnect
    \/ RegBreak
    \/ ReqHeartbeat
    \/ ReqSubmit
    \/ ReqWorkerRun
    \/ ReqWorkerCache
    \/ ReqWorkerFinally
    \/ CleanupTask
    \/ Tick

InitFlow == InitState("off")

SpecFlow == InitFlow /\ [][NextFlow]_vars

\* the event loop runs every task that is ready: the worker tasks and the
\* round of _cleanup_task; nothing is assumed about the clock
SpecFlowFair ==
    /\ InitFlow /\ [][NextFlow]_vars
    /\ WF_vars(ReqWorkerRun)
    /\ WF_vars(ReqWorkerCache)
    /\ WF_vars(ReqWorkerFinally)
    /\ WF_vars(CleanupTask)

(***************************************************************************)
(* Connections that are set up while other connections are: connect holds   *)
(* the manager's _lock across `await websocket.accept()`, and a handler     *)
(* that finds the lock taken, or others waiting for it, waits in line       *)
(***************************************************************************)
\* the connect that holds the lock: the one awaiting websocket.accept()
Accepting == {ws \in 1..Len(sockets) : sockets[ws].state = "accepting"}

\* asyncio.Lock.acquire returns at once when the lock is not held and no
\* one waits for it; release wakes the first in line, who then runs when
\* the event loop gets to it
Woken(w) == lock_waiters # <<>> /\ Head(lock_waiters) = w /\ Accepting = {}

\* websocket_endpoint for a new websocket, up to `async with self._lock` of
\* connect: the lock is taken and websocket.accept() awaited, or the
\* handler waits for the lock
ConnectEnter ==
    \E sid \in Sessions, game \in Games :
        /\ Len(sockets) < MaxSockets
        /\ LET ws == Len(sockets) + 1
               at_once == Accepting = {} /\ lock_waiters = <<>>
           IN /\ sockets' = Append(sockets,
                                [sid |-> sid, game |-> game,
                                 state |-> IF at_once THEN "accepting" ELSE "lock_wait"])
              /\ lock_waiters' = IF at_once THEN lock_waiters
                                 ELSE Append(lock_waiters, [ws |-> ws, op |-> "connect"])
        /\ UNCHANGED <<regVars, now, last, reqVars, storeVars, genVars, logVars, dbVars,
                       cacheVars>>

\* a connect that waited gets the lock and awaits websocket.accept()
ConnectLocked ==
    \E ws \in 1..Len(sockets) :
        /\ Woken([ws |-> ws, op |-> "connect"])
        /\ sockets' = [sockets EXCEPT ![ws].state = "accepting"]
        /\ lock_waiters' = Tail(lock_waiters)
        /\ UNCHANGED <<regVars, now, last, reqVars, storeVars, genVars, logVars, dbVars,
                       cacheVars>>

\* websocket.accept() returned: connect writes the entry and releases the
\* lock, and handle_websocket_connection goes on without a pause: the
\* session row is inserted and the welcome message sent, or, for a
\* session_id the table holds already, the commit raises and the except
\* clause calls disconnect, which runs at once when no one waits for the
\* lock and waits in line else
ConnectAccepted ==
    \E ws \in Accepting :
        LET sid == sockets[ws].sid
            socks == [sockets EXCEPT ![ws].state = "open"]
            reg == connect(Reg, ws, sid, sockets[ws].game, now)
        IN /\ sockets' = socks
           /\ IF sid \in DOMAIN ws_sessions
              THEN /\ IF lock_waiters = <<>>
                      THEN SetReg(disconnect(reg, sid)) /\ UNCHANGED lock_waiters
                      ELSE /\ SetReg(reg)
                           /\ lock_waiters' = Append(lock_waiters,
                                                     [ws |-> ws, op |-> "disconnect"])
                   /\ UNCHANGED ws_sessions
              ELSE /\ SetReg(send_personal_message(reg, socks, sid).reg)
                   /\ ws_sessions' = [x \in DOMAIN ws_sessions \cup {sid} |->
                                         IF x = sid THEN [last_heartbeat |-> now]
                                         ELSE ws_sessions[x]]
                   /\ UNCHANGED lock_waiters
           /\ UNCHANGED <<now, last, reqVars, storeVars, genVars, logVars, reaped, cacheVars>>

\* the disconnect of the except clause gets the lock: the entry that
\* active_connections has for the session_id is removed
ConnectExcept ==
    \E ws \in 1..Len(sockets) :
        /\ Woken([ws |-> ws, op |-> "disconnect"])
        /\ SetReg(disconnect(Reg, sockets[ws].sid))
        /\ lock_waiters' = Tail(lock_waiters)
        /\ UNCHANGED <<sockets, now, last, reqVars, storeVars, genVars, logVars, dbVars,
                       cacheVars>>

NextAccept ==
    \/ ConnectEnter
    \/ ConnectLocked
    \/ ConnectAccepted
    \/ ConnectExcept
    \/ ReqSubmit
    \/ ReqWorkerRun
    \/ ReqWorkerCache
    \/ ReqWorkerFinally

SpecAccept == InitState("off") /\ [][NextAccept]_vars

(***************************************************************************)
(* Claims about the request coordinator (checked under SpecReq, SpecFlow   *)
(* and SpecFlowFair)                                                       *)
(***************************************************************************)
\* the messages of the given kinds transmitted for request rid
Sent(kinds, rid) ==
    {i \in 1..Len(outbox[rid]) : outbox[rid][i].kind \in kinds}

\* C1: for every requestID the session is sent at most one terminal message
\* (result, error or TimedOut)
CX_C1_AtMostOnceDelivery ==
    \A rid \in 1..Len(worker) :
        Cardinality(Sent({"boss_action_response", "error", "timed_out"}, rid)) <= 1

\* C2: a worker that completes after the sweep removed its request sends no
\* result message for that requestID
CX_C2_LateResultDiscarded ==
    \A rid \in 1..Len(worker) : \A i \in Sent({"boss_action_response"}, rid) :
        ~outbox[rid][i].swept

CX_C31_EmbeddingFallback ==
    \A rid \in 1..Len(worker) : worker[rid].failure = "embedding_unavailable" =>
        Sent({"error"}, rid) = {}

\* C34: every message that carries a requestID goes to the connection that
\* submitted the request, and to no other
CX_C34_ReplyToSubmitter ==
    \A rid \in 1..Len(worker) : \A i \in 1..Len(outbox[rid]) :
        outbox[rid][i].ws = worker[rid].ws

\* the websocket is open and is the one the registry has for its session
Registered(ws) ==
    /\ sockets[ws].state = "open"
    /\ sockets[ws].sid \in DOMAIN active_connections
    /\ active_connections[sockets[ws].sid] = ws

\* C35: the connect of another connection neither removes nor replaces the
\* registry entry of a connection that is open and registered
CX_C35_EntryKeptByOthers ==
    [][\A ws \in 1..Len(sockets) :
           Registered(ws) /\ Len(sockets') = Len(sockets) + 1 => Registered(ws)']_vars

\* C36: whenever the request handler answers a Submit with an error message,
\* the in-flight table holds no entry for that requestID and no worker has
\* been scheduled for it
C36_ErrorLeavesNothing ==
    [][Len(worker') = Len(worker) + 1 =>
           LET rid == Len(worker')
           IN (\E i \in 1..Len(outbox'[rid]) : outbox'[rid][i].kind = "error") =>
                  /\ rid \notin DOMAIN active_requests'
                  /\ worker'[rid].pc = "none"]_vars

\* the handler answered a Submit with an error that was transmitted
W_C36_ErrorLeavesNothing ==
    \E rid \in 1..Len(worker) :
        /\ worker[rid].pc = "none"
        /\ Sent({"error"}, rid) # {}

\* C22: every request in the in-flight table is eventually removed from it
C22_EventuallyRemoved ==
    \A rid \in 1..MaxRequests :
        (rid \in DOMAIN active_requests) ~> (rid \notin DOMAIN active_requests)

\* a registered request ran to its end and is out of the table
W_C22_EventuallyRemoved ==
    \E rid \in 1..Len(worker) :
        /\ worker[rid].pc = "done"
        /\ Sent({"processing"}, rid) # {}
        /\ rid \notin DOMAIN active_requests

\* C11: the sweep removes only sessions whose last heartbeat is older than the
\* timeout: a session with a heartbeat within the timeout is never removed,
\* however long ago it connected
CX_C11_SweepSparesLiveSessions == \A r \in reaped : ~r.fresh

\* C3: for every request the sweep removed, exactly one TimedOut notification
\* was sent
CX_C3_SweepSendsTimedOut ==
    \A rid \in swept : Cardinality(Sent({"timed_out"}, rid)) = 1

(***************************************************************************)
(* FAISSService: the per-game vector store                                 *)
(***************************************************************************)
M_C26_Put(f, x, v) == [y \in DOMAIN f \cup {x} |-> v]

Put(f, x, v) == [y \in DOMAIN f \cup {x} |-> IF y = x THEN v ELSE f[y]]

Min(a, b) == IF a <= b THEN a ELSE b

\* faiss.normalize_L2: the direction is kept, the length becomes 1 (a zero
\* vector stays zero)
normalize_L2(v) == [v EXCEPT !.mag = IF v.mag = 0 THEN 0 ELSE 1]

Cos == <<1, 0, -1, 0>>
\* the inner product IndexFlatIP scores with
InnerProduct(a, b) == a.mag * b.mag * Cos[((a.dir - b.dir) % 4) + 1]

\* the squared distance IndexHNSWFlat scores with
L2Distance(a, b) == a.mag * a.mag + b.mag * b.mag - 2 * InnerProduct(a, b)

\* the score index.search reports for a vector: the inner product for the
\* IndexFlatIP of a small dimension, the squared distance for the
\* IndexHNSWFlat of a larger one
Score(query, vec) ==
    IF dimension <= flat_index_dimension
    THEN InnerProduct(query, vec) ELSE L2Distance(query, vec)

\* a vector scored a comes no later than one scored b
NoWorse(a, b) == IF dimension <= flat_index_dimension THEN a >= b ELSE a <= b

\* index.search(query, search_k): the positions (from 0) of the search_k best
\* vectors of the index, best first; equal scores come in any order
SearchOrders(index, query, search_k) ==
    {cand \in [1..search_k -> 0..(Len(index) - 1)] :
        /\ \A i, j \in 1..search_k : i # j => cand[i] # cand[j]
        /\ \A i, j \in 1..search_k : i < j =>
              NoWorse(Score(query, index[cand[i] + 1].vec),
                      Score(query, index[cand[j] + 1].vec))
        /\ \A p \in 0..(Len(index) - 1) :
              (\A i \in 1..search_k : cand[i] # p) =>
                  \A i \in 1..search_k :
                      NoWorse(Score(query, index[cand[i] + 1].vec),
                              Score(query, index[p + 1].vec))}

RECURSIVE M_C12_CollectUnfiltered(_, _, _, _, _, _, _, _)
\* the loop of search_similar_contexts without its effectiveness test
M_C12_CollectUnfiltered(i, cand, index, query, meta, k, min_effectiveness, results) ==
    IF i > Len(cand) \/ Len(results) >= k THEN results
    ELSE LET idx == cand[i]
         IN IF idx >= Len(meta)
            THEN M_C12_CollectUnfiltered(i + 1, cand, index, query, meta, k,
                                         min_effectiveness, results)
            ELSE M_C12_CollectUnfiltered(i + 1, cand, index, query, meta, k,
                     min_effectiveness,
                     Append(results,
                         [context_id |-> meta[idx + 1].context_id,
                          effectiveness_score |-> meta[idx + 1].effectiveness_score,
                          similarity_score |-> Score(query, index[idx + 1].vec),
                          rank |-> Len(results) + 1,
                          idx |-> idx,
                          matched |-> index[idx + 1].cid]))

RECURSIVE Collect(_, _, _, _, _, _, _, _)
\* the loop of search_similar_contexts over the candidates from the i-th on:
\* a position past the metadata is skipped, an entry under min_effectiveness
\* is skipped, the loop stops at k results; matched is the context the
\* vector at the position was added for, idx the position
Collect(i, cand, index, query, meta, k, min_effectiveness, results) ==
    IF i > Len(cand) \/ Len(results) >= k THEN results
    ELSE LET idx == cand[i]
         IN IF idx >= Len(meta)
            THEN Collect(i + 1, cand, index, query, meta, k, min_effectiveness, results)
            ELSE LET metadata_entry == meta[idx + 1]
                 IN IF metadata_entry.effectiveness_score >= min_effectiveness
                    THEN Collect(i + 1, cand, index, query, meta, k, min_effectiveness,
                             Append(results,
                                 [context_id |-> metadata_entry.context_id,
                                  effectiveness_score |-> metadata_entry.effectiveness_score,
                                  similarity_score |->
                                      Score(query, index[idx + 1].vec),
                                  rank |-> Len(results) + 1,
                                  idx |-> idx,
                                  matched |-> index[idx + 1].cid]))
                    ELSE Collect(i + 1, cand, index, query, meta, k, min_effectiveness, results)

RECURSIVE Rebuild(_, _, _, _, _)
\* the rebuild loop of remove_ineffective_contexts from the i-th entry of the
\* old metadata on: an entry at or over min_effectiveness whose vector the
\* old index can reconstruct goes to the new index and the new metadata
Rebuild(i, old_index, old_metadata, min_effectiveness, acc) ==
    IF i > Len(old_metadata) THEN acc
    ELSE IF /\ old_metadata[i].effectiveness_score >= min_effectiveness
            /\ i <= Len(old_index)
         THEN Rebuild(i + 1, old_index, old_metadata, min_effectiveness,
                  [index |-> Append(acc.index, old_index[i]),
                   metadata |-> Append(acc.metadata,
                       [old_metadata[i] EXCEPT !.index_position = Len(acc.index)])])
         ELSE Rebuild(i + 1, old_index, old_metadata, min_effectiveness, acc)

\* the positions remove_ineffective_contexts finds to remove
contexts_to_remove(meta, min_effectiveness) ==
    {i \in 1..Len(meta) : meta[i].effectiveness_score < min_effectiveness}

\* _save_metadata: the game's metadata list goes to its file; a failed
\* write is logged and nothing more
save_metadata(d, game, meta, written) ==
    IF written THEN [d EXCEPT !.metadata = Put(@, game, meta)] ELSE d

\* _save_index: the game's index goes to its file, then _save_metadata; a
\* failed write of the index is logged, and the metadata is then not saved
save_index(d, game, index, meta, outcome) ==
    IF outcome = "failed" THEN d
    ELSE save_metadata([d EXCEPT !.index = Put(@, game, index)], game, meta,
                       outcome = "saved")

LockFree(game) == IF game \in DOMAIN index_locks THEN index_locks[game] = 0 ELSE TRUE

Begin(t) == thr[t].pc = "idle" /\ calls < MaxCalls /\ calls' = calls + 1

\* a call returns: the locals go, the arguments of a search and the result
\* stay
Return(t, result, ret) ==
    LET search == thr[t].op = "search"
    IN [IdleThread EXCEPT !.op = thr[t].op, !.game = thr[t].game,
                          !.overlap = thr[t].overlap,
                          !.embedding = IF search THEN thr[t].embedding ELSE NoVector,
                          !.k = IF search THEN thr[t].k ELSE 0,
                          !.min_effectiveness =
                              IF search THEN thr[t].min_effectiveness ELSE 0,
                          !.result = result, !.ret = ret]

\* add_context up to its lock: for a game that has no index,
\* get_or_create_index makes the lock and loads the index and the metadata
\* from the game's two files, or makes them empty when a file is missing;
\* it returns the game's index
add_context_call(t, game, context_id, embedding, effectiveness_score) ==
    /\ Begin(t)
    /\ IF game \in DOMAIN indexes
       THEN /\ thr' = [thr EXCEPT ![t] =
                         [IdleThread EXCEPT !.pc = "add_wait", !.op = "add",
                              !.game = game, !.index = indexes[game],
                              !.context_id = context_id, !.embedding = embedding,
                              !.effectiveness_score = effectiveness_score]]
            /\ UNCHANGED <<indexes, metadata, index_locks, entry_counts, heap>>
       ELSE LET stored == /\ game \in DOMAIN disk.index
                          /\ game \in DOMAIN disk.metadata
                loaded == IF stored THEN disk.metadata[game] ELSE <<>>
            IN
            /\ LockFree(game)
            /\ heap' = Append(heap, IF stored THEN disk.index[game] ELSE <<>>)
            /\ indexes' = Put(indexes, game, Len(heap) + 1)
            /\ metadata' = Put(metadata, game, loaded)
            /\ index_locks' = Put(index_locks, game, 0)
            /\ entry_counts' = Put(entry_counts, game, Len(loaded))
            /\ thr' = [thr EXCEPT ![t] =
                         [IdleThread EXCEPT !.pc = "add_wait", !.op = "add",
                              !.game = game, !.index = Len(heap) + 1,
                              !.context_id = context_id, !.embedding = embedding,
                              !.effectiveness_score = effectiveness_score]]
    /\ UNCHANGED last_mutation

AddCall(t, game, context_id, embedding, effectiveness_score) ==
    /\ add_context_call(t, game, context_id, embedding, effectiveness_score)
    /\ UNCHANGED <<regVars, sockets, now, last, reqVars, dbVars, genVars, logVars, lockVars, cacheVars, disk>>

\* index.add without the test of the number of components
M_C16_index_add(index, x, cid) ==
    [raised |-> FALSE, index |-> Append(index, [vec |-> x, cid |-> cid])]

\* index.add(x) of an index made for `dimension` components: the vector is
\* appended, or the call raises when x has another number of components
index_add(index, x, cid) ==
    IF x.d = dimension
    THEN [raised |-> FALSE, index |-> Append(index, [vec |-> x, cid |-> cid])]
    ELSE [raised |-> TRUE, index |-> index]

\* asyncio.create_task in a thread: it takes the running event loop of the
\* thread and raises RuntimeError when the thread has none
create_task(running_loop) == IF running_loop THEN "scheduled" ELSE "raised"

\* add_context runs where add_context_async puts it, in a thread of
\* self.executor: a thread without a running event loop
executor_running_loop == FALSE

\* add_context under the lock: the normalized vector goes to the index the
\* call got before the lock, the entry to the game's metadata list, and
\* _save_index writes the game's index and metadata; when the game has no
\* lock or index.add raises, the call logs and raises with nothing else done;
\* after the write, a count that is a multiple of auto_optimize_threshold
\* takes the call to create_task(self._auto_optimize_index(game_id)), and
\* what that raises is logged and raised by add_context
AddLocked(t, outcome) ==
    /\ thr[t].pc = "add_wait"
    /\ LockFree(thr[t].game)
    /\ LET game == thr[t].game
           index == thr[t].index
           add == index_add(heap[index], normalize_L2(thr[t].embedding),
                            thr[t].context_id)
           added == add.index
           metadata_entry == [context_id |-> thr[t].context_id,
                              effectiveness_score |-> thr[t].effectiveness_score,
                              index_position |-> Len(added) - 1,
                              embedding |-> normalize_L2(thr[t].embedding)]
           count == (IF game \in DOMAIN entry_counts THEN entry_counts[game]
                     ELSE 0) + 1
       IN IF game \notin DOMAIN index_locks \/ add.raised
          THEN /\ thr' = [thr EXCEPT ![t] = Return(t, <<>>, "raised")]
               /\ UNCHANGED <<heap, metadata, entry_counts, last_mutation, disk>>
          ELSE
          /\ heap' = [heap EXCEPT ![index] = added]
          /\ metadata' = [metadata EXCEPT ![game] = Append(@, metadata_entry)]
          /\ disk' = save_index(disk, game,
                                IF indexes[game] = index
                                THEN added ELSE heap[indexes[game]],
                                Append(metadata[game], metadata_entry), outcome)
          /\ entry_counts' = Put(entry_counts, game, count)
          /\ thr' = [thr EXCEPT ![t] =
                        Return(t, <<>>,
                               IF count % auto_optimize_threshold # 0 THEN "added"
                               ELSE IF create_task(executor_running_loop) = "scheduled"
                                    THEN "optimize" ELSE "raised")]
          /\ last_mutation' = [op |-> "add", game |-> game,
                               context_id |-> metadata_entry.context_id,
                               embedding |-> metadata_entry.embedding,
                               effectiveness_score |->
                                   metadata_entry.effectiveness_score]
    /\ UNCHANGED <<indexes, index_locks, calls>>
    /\ UNCHANGED <<regVars, sockets, now, last, reqVars, dbVars, genVars, logVars, lockVars, cacheVars>>

\* log_action_outcome, its use of the store: an outcome whose effectiveness
\* reaches min_effectiveness_score has its context added with add_context
\* (a task of the executor), with the score of the outcome
log_action_outcome(t, game, context_id, embedding, effectiveness_score) ==
    /\ effectiveness_score >= min_effectiveness_score
    /\ AddCall(t, game, context_id, embedding, effectiveness_score)

M_C25_SearchCall(t, game, query_embedding, k, min_effectiveness) ==
    /\ Begin(t)
    /\ LET call == [IdleThread EXCEPT !.op = "search", !.game = game,
                                      !.embedding = query_embedding, !.k = k,
                                      !.min_effectiveness = min_effectiveness]
       IN thr' = [thr EXCEPT ![t] =
                IF game \notin DOMAIN indexes \/ Len(heap[indexes[game]]) = 0
                THEN call
                ELSE [call EXCEPT !.pc = "search_wait", !.index = indexes[game]]]
    /\ index_locks' = Put(index_locks, game,
                          IF game \in DOMAIN index_locks THEN index_locks[game] ELSE 0)
    /\ UNCHANGED <<indexes, metadata, entry_counts, heap, last_mutation>>
    /\ UNCHANGED <<regVars, sockets, now, last, reqVars, dbVars, genVars, logVars, lockVars, cacheVars, disk>>

\* search_similar_contexts before its lock: no index or an empty index gives
\* []; else the call keeps the index object it read
SearchCall(t, game, query_embedding, k, min_effectiveness) ==
    /\ Begin(t)
    /\ LET call == [IdleThread EXCEPT !.op = "search", !.game = game,
                                      !.embedding = query_embedding, !.k = k,
                                      !.min_effectiveness = min_effectiveness]
       IN thr' = [thr EXCEPT ![t] =
                IF game \notin DOMAIN indexes \/ Len(heap[indexes[game]]) = 0
                THEN call
                ELSE [call EXCEPT !.pc = "search_wait", !.index = indexes[game]]]
    /\ UNCHANGED <<indexes, metadata, index_locks, entry_counts, heap, last_mutation>>
    /\ UNCHANGED <<regVars, sockets, now, last, reqVars, dbVars, genVars, logVars, lockVars, cacheVars, disk>>

\* search_similar_contexts under the lock: the index object read before the
\* lock is searched and the positions found are looked up in the metadata
\* list the game has now; for a game that has no lock the error is caught
\* and [] returned
SearchLocked(t) ==
    /\ thr[t].pc = "search_wait"
    /\ LockFree(thr[t].game)
    /\ LET index == heap[thr[t].index]
           query == normalize_L2(thr[t].embedding)
           search_k == Min(thr[t].k * 3, Len(index))
       IN IF thr[t].game \notin DOMAIN index_locks
          THEN thr' = [thr EXCEPT ![t] = Return(t, <<>>, 0)]
          ELSE \E cand \in SearchOrders(index, query, search_k) :
              thr' = [thr EXCEPT ![t] =
                         Return(t, Collect(1, cand, index, query,
                                           metadata[thr[t].game], thr[t].k,
                                           thr[t].min_effectiveness, <<>>), 0)]
    /\ UNCHANGED <<indexes, metadata, index_locks, entry_counts, heap, calls,
                   last_mutation>>
    /\ UNCHANGED <<regVars, sockets, now, last, reqVars, dbVars, genVars, logVars, lockVars, cacheVars, disk>>

\* the threads that are rebuilding the game's index in
\* remove_ineffective_contexts
Compacting(game) ==
    {u \in Threads : thr[u].game = game /\ thr[u].pc = "remove_rebuild"}

\* remove_ineffective_contexts before its lock: 0 for a game without index
\* or metadata; overlap tells that another call was rebuilding the game's
\* index when this one began
RemoveCall(t, game, min_effectiveness) ==
    /\ Begin(t)
    /\ LET call == [IdleThread EXCEPT !.op = "remove", !.game = game]
       IN thr' = [thr EXCEPT ![t] =
                IF game \notin DOMAIN indexes \/ game \notin DOMAIN metadata
                THEN call
                ELSE [call EXCEPT !.pc = "remove_wait",
                                  !.min_effectiveness = min_effectiveness,
                                  !.overlap = Compacting(game) # {}]]
    /\ UNCHANGED <<indexes, metadata, index_locks, entry_counts, heap, last_mutation>>
    /\ UNCHANGED <<regVars, sockets, now, last, reqVars, dbVars, genVars, logVars, lockVars, cacheVars, disk>>

\* remove_ineffective_contexts takes the lock (it waits for it) and scans:
\* no lock (the error is caught) or nothing to remove gives 0; else _create_new_index puts an empty index and
\* an empty metadata list in place of the old ones
RemoveLocked(t) ==
    /\ thr[t].pc = "remove_wait"
    /\ LockFree(thr[t].game)
    /\ LET game == thr[t].game
       IN IF \/ game \notin DOMAIN index_locks
             \/ contexts_to_remove(metadata[game], thr[t].min_effectiveness) = {}
          THEN /\ thr' = [thr EXCEPT ![t] = Return(t, <<>>, 0)]
               /\ UNCHANGED <<indexes, metadata, index_locks, heap, last_mutation>>
          ELSE /\ heap' = Append(heap, <<>>)
               /\ indexes' = [indexes EXCEPT ![game] = Len(heap) + 1]
               /\ metadata' = [metadata EXCEPT ![game] = <<>>]
               /\ index_locks' = [index_locks EXCEPT ![game] = t]
               /\ thr' = [thr EXCEPT ![t].pc = "remove_rebuild",
                                     ![t].index = Len(heap) + 1,
                                     ![t].old_index = indexes[game],
                                     ![t].old_metadata = metadata[game]]
               /\ last_mutation' = [NoMutation EXCEPT !.op = "remove", !.game = game]
    /\ UNCHANGED <<entry_counts, calls>>
    /\ UNCHANGED <<regVars, sockets, now, last, reqVars, dbVars, genVars, logVars, lockVars, cacheVars, disk>>

\* the rest of remove_ineffective_contexts: the kept entries are copied to
\* the new index, the metadata list is replaced, _save_index writes both,
\* the lock is released
RemoveRebuild(t, outcome) ==
    /\ thr[t].pc = "remove_rebuild"
    /\ LET game == thr[t].game
           new_index == thr[t].index
           built == Rebuild(1, heap[thr[t].old_index], thr[t].old_metadata,
                            thr[t].min_effectiveness,
                            [index |-> heap[new_index], metadata |-> <<>>])
       IN /\ heap' = [heap EXCEPT ![new_index] = built.index]
          /\ metadata' = [metadata EXCEPT ![game] = built.metadata]
          /\ index_locks' = IF thr[t].lock = "private" THEN index_locks
                            ELSE [index_locks EXCEPT ![game] = 0]
          /\ thr' = [thr EXCEPT ![t] =
                        Return(t, <<>>,
                               Cardinality(contexts_to_remove(thr[t].old_metadata,
                                                              thr[t].min_effectiveness)))]
          /\ disk' = save_index(disk, game,
                                IF indexes[game] = new_index
                                THEN built.index ELSE heap[indexes[game]],
                                built.metadata, outcome)
    /\ last_mutation' = [NoMutation EXCEPT !.op = "remove", !.game = thr[t].game]
    /\ UNCHANGED <<indexes, entry_counts, calls>>
    /\ UNCHANGED <<regVars, sockets, now, last, reqVars, dbVars, genVars, logVars, lockVars, cacheVars>>

M_C24_FirstWith(meta, context_id) == IF meta = <<>> THEN 0 ELSE 1

\* the first entry of a metadata list with the context_id, 0 when none has it
FirstWith(meta, context_id) ==
    LET found == {i \in 1..Len(meta) : meta[i].context_id = context_id}
    IN IF found = {} THEN 0 ELSE CHOOSE i \in found : \A j \in found : i <= j

\* update_effectiveness_score: under the lock (it waits for it) the first
\* entry with the context_id gets the new score and _save_metadata writes
\* the list; a game without metadata, a game without lock (the error is
\* caught) or an unknown context_id changes nothing
update_effectiveness_score(t, game, context_id, new_score, written) ==
    /\ Begin(t)
    /\ LockFree(game)
    /\ LET known == game \in DOMAIN metadata /\ game \in DOMAIN index_locks
           found == IF known THEN FirstWith(metadata[game], context_id) ELSE 0
           call == [IdleThread EXCEPT !.op = "update", !.game = game,
                                      !.context_id = context_id,
                                      !.effectiveness_score = new_score,
                                      !.at = calls + 1]
       IN IF found = 0
          THEN /\ thr' = [thr EXCEPT ![t] = [call EXCEPT !.ret = "not_found"]]
               /\ UNCHANGED <<metadata, disk, last_mutation>>
          ELSE LET updated == [metadata[game] EXCEPT
                                  ![found].effectiveness_score = new_score]
               IN /\ metadata' = [metadata EXCEPT ![game] = updated]
                  /\ disk' = save_metadata(disk, game, updated, written)
                  /\ thr' = [thr EXCEPT ![t] = [call EXCEPT !.ret = "updated"]]
                  /\ last_mutation' = [NoMutation EXCEPT !.op = "update",
                                                         !.game = game]
    /\ UNCHANGED <<indexes, index_locks, entry_counts, heap>>
    /\ UNCHANGED <<regVars, sockets, now, last, reqVars, dbVars, genVars, logVars, lockVars, cacheVars>>

RECURSIVE Sum(_)
Sum(scores) == IF scores = <<>> THEN 0 ELSE Head(scores) + Sum(Tail(scores))

\* np.mean of the scores of a context's actions, 0.0 when it has none
avg_effectiveness(scores) ==
    IF scores = <<>> THEN 0 ELSE Sum(scores) \div Len(scores)

RECURSIVE RebuildFromContexts(_, _, _)
\* the loop of rebuild_index_from_db from the i-th context on: a context
\* without embedding_vector is skipped, one whose vector index.add refuses
\* is skipped with a warning, the others go to the new index and the new
\* metadata with the mean score of their actions
RebuildFromContexts(i, contexts, acc) ==
    IF i > Len(contexts) THEN acc
    ELSE LET context == contexts[i]
             embedding_normalized == normalize_L2(context.embedding_vector)
             add == index_add(acc.index, embedding_normalized, context.context_id)
         IN IF context.embedding_vector = NoVector \/ add.raised
            THEN RebuildFromContexts(i + 1, contexts, acc)
            ELSE RebuildFromContexts(i + 1, contexts,
                     [index |-> add.index,
                      metadata |-> Append(acc.metadata,
                          [context_id |-> context.context_id,
                           effectiveness_score |-> avg_effectiveness(context.scores),
                           index_position |-> Len(add.index) - 1,
                           embedding |-> embedding_normalized])])

\* rebuild_index_from_db: no contexts in the database returns at once; else,
\* under the game's lock if it has one, _create_new_index puts a new index
\* in place, the loop fills it, the metadata list is replaced and
\* _save_index writes both
rebuild_index_from_db(t, game, contexts, outcome) ==
    /\ Begin(t)
    /\ LET call == [IdleThread EXCEPT !.op = "rebuild", !.game = game,
                                      !.contexts = contexts, !.at = calls + 1]
           built == RebuildFromContexts(1, contexts,
                                        [index |-> <<>>, metadata |-> <<>>])
       IN IF contexts = <<>>
          THEN /\ thr' = [thr EXCEPT ![t] = [call EXCEPT !.ret = "no_contexts"]]
               /\ UNCHANGED <<indexes, metadata, heap, disk, last_mutation>>
          ELSE /\ LockFree(game)
               /\ heap' = Append(heap, built.index)
               /\ indexes' = Put(indexes, game, Len(heap) + 1)
               /\ metadata' = Put(metadata, game, built.metadata)
               /\ disk' = save_index(disk, game, built.index, built.metadata,
                                     outcome)
               /\ thr' = [thr EXCEPT ![t] = [call EXCEPT !.ret = "rebuilt"]]
               /\ last_mutation' = [NoMutation EXCEPT !.op = "rebuild",
                                                      !.game = game]
    /\ UNCHANGED <<index_locks, entry_counts>>
    /\ UNCHANGED <<regVars, sockets, now, last, reqVars, dbVars, genVars, logVars, lockVars, cacheVars>>

\* the process ends between two calls and starts again: FAISSService is
\* constructed anew with nothing in memory, the files stay
Restart ==
    /\ \A t \in Threads : thr[t].pc = "idle"
    /\ calls < MaxCalls
    /\ calls' = calls + 1
    /\ indexes' = <<>>
    /\ metadata' = <<>>
    /\ index_locks' = <<>>
    /\ entry_counts' = <<>>
    /\ heap' = <<>>
    /\ thr' = [t \in Threads |-> IdleThread]
    /\ last_mutation' = NoMutation
    /\ UNCHANGED <<regVars, sockets, now, last, reqVars, dbVars, genVars, logVars, lockVars, cacheVars, disk>>

StoreAddCall == \E t \in Threads, game \in StoreGames, c \in InputContexts :
                    AddCall(t, game, c.context_id, c.embedding, c.effectiveness_score)
StoreLogOutcome == \E t \in Threads, game \in StoreGames, c \in InputContexts :
                       log_action_outcome(t, game, c.context_id, c.embedding,
                                          c.effectiveness_score)
\* in SpecStore the files get written; SpecDurable has the writes that fail
StoreAddLocked == \E t \in Threads : AddLocked(t, "saved")
StoreSearchCall == \E t \in Threads, game \in StoreGames, query \in InputVectors,
                      k \in InputK, min \in SearchThresholds :
                       SearchCall(t, game, query, k, min)
StoreSearchLocked == \E t \in Threads : SearchLocked(t)
StoreRemoveCall == \E t \in Threads, game \in StoreGames, min \in RemoveThresholds :
                       RemoveCall(t, game, min)
StoreRemoveLocked == \E t \in Threads : RemoveLocked(t)
StoreRemoveRebuild == \E t \in Threads : RemoveRebuild(t, "saved")

NextStore ==
    \/ StoreAddCall
    \/ StoreLogOutcome
    \/ StoreAddLocked
    \/ StoreSearchCall
    \/ StoreSearchLocked
    \/ StoreRemoveCall
    \/ StoreRemoveLocked
    \/ StoreRemoveRebuild

InitStore == InitState("off")

SpecStore == InitStore /\ [][NextStore]_vars

(***************************************************************************)
(* The store with its maintenance calls and restarts of the process        *)
(***************************************************************************)
DurableAddLocked == \E t \in Threads, outcome \in SaveOutcomes :
                        AddLocked(t, outcome)
DurableRemoveRebuild == \E t \in Threads, outcome \in SaveOutcomes :
                            RemoveRebuild(t, outcome)
DurableUpdate == \E t \in Threads, game \in StoreGames, u \in InputUpdates,
                    written \in BOOLEAN :
                     update_effectiveness_score(t, game, u.context_id, u.new_score,
                                                written)
DurableRebuild == \E t \in Threads, game \in StoreGames, contexts \in InputRecords,
                     outcome \in SaveOutcomes :
                      rebuild_index_from_db(t, game, contexts, outcome)

\* the stores of two games side by side: inserts (context 5 has the wrong
\* dimension, its insert fails), score updates, removes and rebuilds
TenantContexts == {c \in InputContexts : c.context_id \in {1, 5}}
TenantAddCall == \E t \in Threads, game \in Games, c \in TenantContexts :
                     AddCall(t, game, c.context_id, c.embedding, c.effectiveness_score)
TenantUpdate == \E t \in Threads, game \in Games, u \in InputUpdates :
                    update_effectiveness_score(t, game, u.context_id, u.new_score, TRUE)
TenantRemoveCall == \E t \in Threads, game \in Games, min \in RemoveThresholds :
                        RemoveCall(t, game, min)
TenantRebuild == \E t \in Threads, game \in Games, contexts \in InputRecords :
                     rebuild_index_from_db(t, game, contexts, "saved")
NextTenant ==
    \/ TenantAddCall
    \/ StoreAddLocked
    \/ TenantUpdate
    \/ TenantRemoveCall
    \/ StoreRemoveLocked
    \/ StoreRemoveRebuild
    \/ TenantRebuild
InitTenant == InitState("off")
SpecTenant == InitTenant /\ [][NextTenant]_vars

\* ---- get_or_create_index and rebuild_index_from_db statement by statement
\* add_context enters get_or_create_index: a game that has an index goes on
\* to the lock of add_context; else `if game_id not in self.index_locks` is
\* evaluated
GetOrCreateCheck(t, game, context_id, embedding, effectiveness_score) ==
    /\ Begin(t)
    /\ thr' = [thr EXCEPT ![t] =
                  [IdleThread EXCEPT
                      !.pc = IF game \in DOMAIN indexes THEN "add_wait"
                             ELSE IF game \in DOMAIN index_locks THEN "take_lock"
                             ELSE "make_lock",
                      !.op = "add", !.game = game,
                      !.index = IF game \in DOMAIN indexes THEN indexes[game] ELSE 0,
                      !.context_id = context_id, !.embedding = embedding,
                      !.effectiveness_score = effectiveness_score]]
    /\ UNCHANGED <<indexes, metadata, index_locks, entry_counts, heap, last_mutation>>
    /\ UNCHANGED <<regVars, sockets, now, last, reqVars, dbVars, genVars, logVars, lockVars, cacheVars, disk>>

\* self.index_locks[game_id] = threading.RLock(): a new, free lock takes the
\* place of whatever the game had; a thread that holds the lock replaced
\* holds it still, and it is in self.index_locks no more
GetOrCreateMakeLock(t) ==
    /\ thr[t].pc = "make_lock"
    /\ index_locks' = Put(index_locks, thr[t].game, 0)
    /\ thr' = [u \in Threads |->
                  IF u = t THEN [thr[t] EXCEPT !.pc = "take_lock"]
                  ELSE IF /\ thr[t].game \in DOMAIN index_locks
                          /\ index_locks[thr[t].game] = u
                      THEN [thr[u] EXCEPT !.lock = "private"]
                  ELSE thr[u]]
    /\ UNCHANGED <<indexes, metadata, entry_counts, heap, calls, last_mutation>>
    /\ UNCHANGED <<regVars, sockets, now, last, reqVars, dbVars, genVars, logVars, lockVars, cacheVars, disk>>

\* with self.index_locks[game_id]: the lock the game has now is taken
GetOrCreateTakeLock(t) ==
    /\ thr[t].pc = "take_lock"
    /\ index_locks[thr[t].game] = 0
    /\ index_locks' = [index_locks EXCEPT ![thr[t].game] = t]
    /\ thr' = [thr EXCEPT ![t] = [@ EXCEPT !.pc = "create", !.lock = "dict"]]
    /\ UNCHANGED <<indexes, metadata, entry_counts, heap, calls, last_mutation>>
    /\ UNCHANGED <<regVars, sockets, now, last, reqVars, dbVars, genVars, logVars, lockVars, cacheVars, disk>>

\* inside the lock: if the game still has no index, it is loaded from the
\* two files or made empty, and entry_counts is set; the lock is released and
\* self.indexes[game_id] returned to add_context
GetOrCreateLoad(t) ==
    /\ thr[t].pc = "create"
    /\ LET game == thr[t].game
           stored == game \in DOMAIN disk.index /\ game \in DOMAIN disk.metadata
           loaded == IF stored THEN disk.metadata[game] ELSE <<>>
       IN /\ IF game \in DOMAIN indexes
                THEN UNCHANGED <<indexes, metadata, entry_counts, heap>>
                ELSE /\ heap' = Append(heap, IF stored THEN disk.index[game] ELSE <<>>)
                     /\ indexes' = Put(indexes, game, Len(heap) + 1)
                     /\ metadata' = Put(metadata, game, loaded)
                     /\ entry_counts' = Put(entry_counts, game, Len(loaded))
          /\ index_locks' = IF thr[t].lock = "dict"
                                THEN [index_locks EXCEPT ![game] = 0]
                                ELSE index_locks
          /\ thr' = [thr EXCEPT ![t] =
                        [@ EXCEPT !.pc = "add_wait", !.lock = "none",
                                  !.index = IF game \in DOMAIN indexes
                                               THEN indexes[game] ELSE Len(heap) + 1]]
    /\ UNCHANGED <<calls, last_mutation>>
    /\ UNCHANGED <<regVars, sockets, now, last, reqVars, dbVars, genVars, logVars, lockVars, cacheVars, disk>>

\* rebuild_index_from_db up to its lock: no contexts returns at once; else
\* with self.index_locks.get(game_id, threading.RLock()) takes the game's
\* lock when it has one (waiting for it) and a lock of its own when not
RebuildEnter(t, game, contexts) ==
    /\ Begin(t)
    /\ LET call == [IdleThread EXCEPT !.op = "rebuild", !.game = game,
                                      !.contexts = contexts, !.at = calls + 1]
       IN IF contexts = <<>>
          THEN /\ thr' = [thr EXCEPT ![t] = [call EXCEPT !.ret = "no_contexts"]]
               /\ UNCHANGED index_locks
          ELSE IF game \in DOMAIN index_locks
          THEN /\ index_locks[game] = 0
               /\ index_locks' = [index_locks EXCEPT ![game] = t]
               /\ thr' = [thr EXCEPT ![t] = [call EXCEPT !.pc = "rebuild_inside",
                                                         !.lock = "dict"]]
          ELSE /\ thr' = [thr EXCEPT ![t] = [call EXCEPT !.pc = "rebuild_inside",
                                                         !.lock = "private"]]
               /\ UNCHANGED index_locks
    /\ UNCHANGED <<indexes, metadata, entry_counts, heap, last_mutation>>
    /\ UNCHANGED <<regVars, sockets, now, last, reqVars, dbVars, genVars, logVars, lockVars, cacheVars, disk>>

\* rebuild_index_from_db inside its lock: the new index, the loop, the new
\* metadata list, _save_index; then the lock is released
RebuildRun(t) ==
    /\ thr[t].pc = "rebuild_inside"
    /\ LET game == thr[t].game
           built == RebuildFromContexts(1, thr[t].contexts,
                                        [index |-> <<>>, metadata |-> <<>>])
       IN /\ heap' = Append(heap, built.index)
          /\ indexes' = Put(indexes, game, Len(heap) + 1)
          /\ metadata' = Put(metadata, game, built.metadata)
          /\ disk' = save_index(disk, game, built.index, built.metadata, "saved")
          /\ index_locks' = IF thr[t].lock = "dict"
                                THEN [index_locks EXCEPT ![game] = 0]
                                ELSE index_locks
          /\ thr' = [thr EXCEPT ![t] =
                        [IdleThread EXCEPT !.op = "rebuild", !.game = game,
                                           !.contexts = thr[t].contexts,
                                           !.at = thr[t].at, !.ret = "rebuilt"]]
          /\ last_mutation' = [NoMutation EXCEPT !.op = "rebuild", !.game = game]
    /\ UNCHANGED <<entry_counts, calls>>
    /\ UNCHANGED <<regVars, sockets, now, last, reqVars, dbVars, genVars, logVars, lockVars, cacheVars>>

LockContexts == {c \in InputContexts : c.context_id \in {1, 2}}
LockAddCall == \E t \in Threads, game \in StoreGames, c \in LockContexts :
                   GetOrCreateCheck(t, game, c.context_id, c.embedding,
                                    c.effectiveness_score)
LockMake == \E t \in Threads : GetOrCreateMakeLock(t)
LockTake == \E t \in Threads : GetOrCreateTakeLock(t)
LockLoad == \E t \in Threads : GetOrCreateLoad(t)
LockRebuildEnter == \E t \in Threads, game \in StoreGames, contexts \in InputRecords :
                        RebuildEnter(t, game, contexts)
LockRebuildRun == \E t \in Threads : RebuildRun(t)
NextLock ==
    \/ LockAddCall
    \/ LockMake
    \/ LockTake
    \/ LockLoad
    \/ StoreAddLocked
    \/ StoreRemoveCall
    \/ StoreRemoveLocked
    \/ StoreRemoveRebuild
    \/ LockRebuildEnter
    \/ LockRebuildRun
InitLock == InitState("off")
SpecLock == InitLock /\ [][NextLock]_vars

\* the outcomes reported: two for actions of context 1, one at and one under
\* min_effectiveness_score, and one for an action of context 2; the
\* embedding is the context's embedding_vector
OutcomeReports ==
    {[context_id |-> 1, embedding |-> [dir |-> 0, mag |-> 2, d |-> dimension],
      effectiveness_score |-> 5],
     [context_id |-> 1, embedding |-> [dir |-> 0, mag |-> 2, d |-> dimension],
      effectiveness_score |-> 1],
     [context_id |-> 2, embedding |-> [dir |-> 1, mag |-> 1, d |-> dimension],
      effectiveness_score |-> 5]}

\* _generate_cache_key: boss_action:{game_id}:{context_hash}:{battle_phase}
CacheKeys == {[game_id |-> g, context_hash |-> h] : g \in StoreGames, h \in {1, 2}}

\* _get_cached_response: the response Redis has under the key; no entry, or
\* an error of Redis (it is logged), gives None
NoResponse == [generated_at |-> -1]
get_cached_response(redis, cache_key, read) ==
    IF read /\ cache_key \in DOMAIN redis THEN redis[cache_key] ELSE NoResponse

\* _cache_response: setex of the response under the key; an error of Redis
\* is logged and nothing is stored
cache_response(redis, cache_key, response, stored) ==
    IF stored THEN Put(redis, cache_key, response) ELSE redis

\* _invalidate_cache_for_game: the keys boss_action:{game_id}:* are deleted;
\* an error of Redis is logged and the entries stay
invalidate_cache_for_game(redis, game, deleted) ==
    IF deleted
    THEN Restrict(redis, {key \in DOMAIN redis : key.game_id # game})
    ELSE redis

\* the effectiveness scores of the actions of a context
ScoresOf(context_id) ==
    IF context_id \in DOMAIN action_scores THEN action_scores[context_id] ELSE <<>>

\* AdaptiveBossService.log_action_outcome, the whole of it: the action row
\* gets the score (context.avg_effectiveness is then the mean of the rows of
\* the context), and an outcome of at least min_effectiveness_score goes to
\* add_context with the score of this one outcome; a lesser outcome does
\* not reach the store; after the commit the cached responses of the game
\* are invalidated
ReportOutcome(t, game, context_id, embedding, effectiveness_score) ==
    /\ action_scores' = Put(action_scores, context_id,
                            Append(ScoresOf(context_id), effectiveness_score))
    /\ IF effectiveness_score >= min_effectiveness_score
           THEN add_context_call(t, game, context_id, embedding, effectiveness_score)
           ELSE /\ Begin(t)
                /\ thr' = [thr EXCEPT ![t] =
                              [IdleThread EXCEPT !.op = "report", !.game = game,
                                                 !.context_id = context_id,
                                                 !.at = calls + 1]]
                /\ UNCHANGED <<indexes, metadata, index_locks, entry_counts, heap,
                               last_mutation>>
    /\ \E deleted \in BOOLEAN :
           response_cache' = invalidate_cache_for_game(response_cache, game, deleted)
    /\ UNCHANGED <<regVars, sockets, now, last, reqVars, dbVars, genVars, lockVars, answers,
                   disk>>

OutcomeReport == \E t \in Threads, game \in StoreGames, r \in OutcomeReports :
                     /\ ReportOutcome(t, game, r.context_id, r.embedding,
                                      r.effectiveness_score)
                     /\ UNCHANGED reports
NextOutcome == OutcomeReport \/ StoreAddLocked
InitOutcome == InitState("off")
SpecOutcome == InitOutcome /\ [][NextOutcome]_vars

\* an outcome report as the caller sees it: pos is the place of its score in
\* the rows of the context (0: nothing was committed), followup the fate of
\* what the report set off after the commit, ret what the caller got
Reported(channel, context_id, effectiveness_score, pos, followup, ret) ==
    [channel |-> channel, context_id |-> context_id,
     effectiveness_score |-> effectiveness_score, pos |-> pos,
     followup |-> followup, ret |-> ret]

\* a handler that broadcasts before it logs and gives up when the broadcast
\* fails
M_C32_handle_action_outcome(t, game, r, broadcast) ==
    /\ IF broadcast = "ok"
       THEN ReportOutcome(t, game, r.context_id, r.embedding, r.effectiveness_score)
       ELSE /\ Begin(t)
            /\ UNCHANGED <<thr, action_scores, indexes, metadata, index_locks,
                           entry_counts, heap, last_mutation>>
            /\ UNCHANGED <<regVars, sockets, now, last, reqVars, dbVars, genVars, lockVars, cacheVars, disk>>
    /\ reports' = Append(reports,
                         Reported("ws", r.context_id, r.effectiveness_score,
                                  IF broadcast = "ok"
                                  THEN Len(ScoresOf(r.context_id)) + 1 ELSE 0,
                                  broadcast, "ok"))

\* _handle_action_outcome(session_id, outcome_data) of the websocket channel,
\* for an action the table holds: log_action_outcome runs on the event loop
\* and commits, then _broadcast_learning_update reads the statistics and
\* broadcasts; it logs whatever get_game_stats or the broadcast raises and
\* returns, and the handler sends the reporter nothing
handle_action_outcome(t, game, r, broadcast) ==
    /\ ReportOutcome(t, game, r.context_id, r.embedding, r.effectiveness_score)
    /\ reports' = Append(reports,
                         Reported("ws", r.context_id, r.effectiveness_score,
                                  Len(ScoresOf(r.context_id)) + 1, broadcast, "ok"))

\* optimize_game_index_if_needed(game_id, db), the background task of the
\* endpoint: optimize_game_index returns or raises, and what it raises is
\* logged
optimize_game_index_if_needed(optimized) == IF optimized THEN "ok" ELSE "failed"

\* log_action_outcome run by log_action_outcome_async, that is in a thread
\* of the default executor, where asyncio.create_task finds no running loop
\* and raises RuntimeError: an outcome of at least min_effectiveness_score
\* raises at the create_task of add_context_async, before the commit, and is
\* rolled back; a lesser one is committed and raises at the create_task of
\* _update_performance_tracking
log_action_outcome_async(effectiveness_score) ==
    [committed |-> effectiveness_score < min_effectiveness_score, raised |-> TRUE]

\* POST /boss/action/outcome for an action the table holds:
\* log_action_outcome_async, then the background task is scheduled and the
\* success body returned; an exception of the logging becomes a 500 response
log_action_outcome_endpoint(game, r, optimized) ==
    LET logged == log_action_outcome_async(r.effectiveness_score)
    IN /\ calls < MaxCalls
       /\ calls' = calls + 1
       /\ action_scores' =
              IF logged.committed
              THEN Put(action_scores, r.context_id,
                       Append(ScoresOf(r.context_id), r.effectiveness_score))
              ELSE action_scores
       /\ reports' = Append(reports,
              Reported("rest", r.context_id, r.effectiveness_score,
                       IF logged.committed THEN Len(ScoresOf(r.context_id)) + 1 ELSE 0,
                       IF logged.raised THEN "none"
                       ELSE optimize_game_index_if_needed(optimized),
                       IF logged.raised THEN "raised" ELSE "ok"))
       /\ UNCHANGED <<indexes, metadata, index_locks, entry_counts, heap, thr,
                      last_mutation, disk>>
       /\ \E deleted \in BOOLEAN :
              response_cache' =
                  IF logged.committed
                  THEN invalidate_cache_for_game(response_cache, game, deleted)
                  ELSE response_cache
       /\ UNCHANGED <<regVars, sockets, now, last, reqVars, dbVars, genVars, lockVars, answers>>

ReportWs == \E t \in Threads, game \in StoreGames, r \in OutcomeReports,
               broadcast \in {"ok", "failed"} :
                handle_action_outcome(t, game, r, broadcast)
ReportRest == \E game \in StoreGames, r \in OutcomeReports, optimized \in BOOLEAN :
                  log_action_outcome_endpoint(game, r, optimized)
NextReport == ReportWs \/ ReportRest \/ StoreAddLocked
InitReport == InitState("off")
SpecReport == InitReport /\ [][NextReport]_vars

\* the files of a game after auto_optimize_threshold - 1 outcomes of one
\* effective context were inserted since the last compaction: add_context
\* appends an entry for each, and each insert writes the files
ThresholdFiles ==
    LET x == normalize_L2([dir |-> 1, mag |-> 1, d |-> dimension])
        n == auto_optimize_threshold - 1
    IN [index |-> [g \in StoreGames |-> [i \in 1..n |-> [vec |-> x, cid |-> 2]]],
        metadata |-> [g \in StoreGames |->
                         [i \in 1..n |-> [context_id |-> 2, effectiveness_score |-> 5,
                                          index_position |-> i - 1, embedding |-> x]]]]

\* the store of a process started on those files, under outcome reports
NextThreshold == StoreLogOutcome \/ StoreAddLocked
InitThreshold == InitFiles("off", ThresholdFiles)
SpecThreshold == InitThreshold /\ [][NextThreshold]_vars

\* AdaptiveBossService.generate_boss_action for a non-realtime request, up
\* to the generation: the game and its prompt are found, and a response in
\* the cache is returned; else the context is embedded, the store searched
\* and the action generated from what the outcomes so far have taught
\* (generated_at counts the outcome reports logged by then)
GenerateBegin(cache_key, read) ==
    LET cached_response == get_cached_response(response_cache, cache_key, read)
        call == [cache_key |-> cache_key, started_at |-> Len(reports)]
    IN /\ Len(answers) + calls < MaxCalls
       /\ answers' = Append(answers,
              IF cached_response # NoResponse
              THEN [pc |-> "done", call |-> call, from_cache |-> TRUE,
                    response |-> cached_response]
              ELSE [pc |-> "generated", call |-> call, from_cache |-> FALSE,
                    response |-> [generated_at |-> Len(reports)]])
       /\ UNCHANGED <<regVars, sockets, now, last, reqVars, storeVars, dbVars, genVars,
                      logVars, lockVars, response_cache>>

\* the rest of generate_boss_action: the context and the action rows are
\* committed, the response is cached under the key and returned
GenerateEnd(q, stored) ==
    /\ q \in 1..Len(answers)
    /\ answers[q].pc = "generated"
    /\ response_cache' = cache_response(response_cache, answers[q].call.cache_key,
                                        answers[q].response, stored)
    /\ answers' = [answers EXCEPT ![q].pc = "done"]
    /\ UNCHANGED <<regVars, sockets, now, last, reqVars, storeVars, dbVars, genVars,
                   logVars, lockVars>>

CacheGenerateBegin == \E cache_key \in CacheKeys, read \in BOOLEAN :
                          GenerateBegin(cache_key, read)
CacheGenerateEnd == \E q \in 1..MaxCalls, stored \in BOOLEAN : GenerateEnd(q, stored)
\* outcomes under min_effectiveness_score, which do not go to the store; the
\* reports run beside the requests: in executor threads
\* (log_action_outcome_async) and in the other server processes that share
\* the database and Redis
CacheReport == \E t \in Threads, game \in StoreGames, r \in OutcomeReports :
                   /\ r.effectiveness_score < min_effectiveness_score
                   /\ handle_action_outcome(t, game, r, "ok")
NextCache == CacheGenerateBegin \/ CacheGenerateEnd \/ CacheReport
SpecCache == InitState("off") /\ [][NextCache]_vars

\* the store under inserts and score updates alone
NextScore == StoreAddCall \/ StoreAddLocked \/ DurableUpdate
InitScore == InitState("off")
SpecScore == InitScore /\ [][NextScore]_vars

NextDurable ==
    \/ StoreAddCall
    \/ StoreLogOutcome
    \/ DurableAddLocked
    \/ StoreSearchCall
    \/ StoreSearchLocked
    \/ StoreRemoveCall
    \/ StoreRemoveLocked
    \/ DurableRemoveRebuild
    \/ DurableUpdate
    \/ DurableRebuild
    \/ Restart

InitDurable == InitState("off")

SpecDurable == InitDurable /\ [][NextDurable]_vars

(***************************************************************************)
(* Claims about the vector store (checked under SpecStore)                 *)
(***************************************************************************)
\* C4: a Search concurrent with Remove/Compact on the same tenant sees no
\* torn state: every entryID it returns is the one stored for the vector
\* that matched
CX_C4_SearchNotTorn ==
    \A t \in Threads : thr[t].op = "search" /\ thr[t].pc = "idle" =>
        \A i \in 1..Len(thr[t].result) :
            thr[t].result[i].context_id = thr[t].result[i].matched

\* the threads whose last call was a search that has returned
Searched == {t \in Threads : thr[t].op = "search" /\ thr[t].pc = "idle"}

\* C12: every result a Search returns has an effectiveness score at or over
\* the minEffectiveness of the call, and a Search returns at most k results
C12_EffectivenessFilter ==
    \A t \in Searched :
        /\ Len(thr[t].result) <= thr[t].k
        /\ \A i \in 1..Len(thr[t].result) :
              thr[t].result[i].effectiveness_score >= thr[t].min_effectiveness

\* a search returned a result while the game held an entry under its
\* minEffectiveness
W_C12_EffectivenessFilter ==
    \E t \in Searched :
        /\ Len(thr[t].result) >= 1
        /\ \E i \in 1..Len(metadata[thr[t].game]) :
              metadata[thr[t].game][i].effectiveness_score < thr[t].min_effectiveness

\* C13: the results of a Search come in descending similarity; of two results
\* of equal similarity the one with the higher effectiveness score comes
\* first, and of two equal in both the one inserted earlier
CX_C13_SearchOrder ==
    \A t \in Searched : \A i, j \in 1..Len(thr[t].result) : i < j =>
        LET a == thr[t].result[i]
            b == thr[t].result[j]
        IN \/ a.similarity_score # b.similarity_score
              /\ NoWorse(a.similarity_score, b.similarity_score)
           \/ a.similarity_score = b.similarity_score
              /\ a.effectiveness_score > b.effectiveness_score
           \/ a.similarity_score = b.similarity_score
              /\ a.effectiveness_score = b.effectiveness_score
              /\ a.idx < b.idx

\* the entries the store holds for the game
Entries(game) == IF game \in DOMAIN metadata THEN metadata[game] ELSE <<>>

\* this step is the return of a search of thread t: from under the lock, or
\* at once because the game has no index or an empty one
SearchReturns(t) ==
    /\ thr'[t].op = "search"
    /\ thr'[t].pc = "idle"
    /\ \/ thr[t].pc = "search_wait"
       \/ /\ thr[t].pc = "idle"
          /\ calls' = calls + 1
          /\ \A u \in Threads \ {t} : thr'[u] = thr[u]
          /\ IF thr'[t].game \in DOMAIN indexes
             THEN Len(heap[indexes[thr'[t].game]]) = 0 ELSE TRUE

\* the entries of meta a search with min_effectiveness may return
Eligible(meta, min_effectiveness) ==
    {i \in 1..Len(meta) : meta[i].effectiveness_score >= min_effectiveness}

\* result holds the k entries of meta most similar to query among the
\* eligible ones (all of them when they are fewer than k), each once
TopEligible(result, meta, query, k, min_effectiveness) ==
    LET eligible == Eligible(meta, min_effectiveness)
        returned == {result[i].idx + 1 : i \in 1..Len(result)}
    IN /\ returned \subseteq eligible
       /\ Cardinality(returned) = Len(result)
       /\ Len(result) = Min(k, Cardinality(eligible))
       /\ \A i \in 1..Len(result) :
              result[i].context_id = meta[result[i].idx + 1].context_id
       /\ \A r \in returned : \A e \in eligible \ returned :
              NoWorse(Score(query, meta[r].embedding), Score(query, meta[e].embedding))

\* C14: a Search on a store of at most 3*k entries returns exactly the up to
\* k most similar entries whose effectiveness score is at or over
\* minEffectiveness
CX_C14_OverfetchExact ==
    [][\A t \in Threads :
          (SearchReturns(t) /\ Len(Entries(thr'[t].game)) <= 3 * thr'[t].k)
          => TopEligible(thr'[t].result, Entries(thr'[t].game),
                         normalize_L2(thr'[t].embedding), thr'[t].k,
                         thr'[t].min_effectiveness)]_vars

\* C15: a Search with the vector of the entry inserted last, no other
\* mutation since, returns that entry at rank 1; stated for a search whose
\* minEffectiveness the entry meets, and satisfied also by a first result
\* that is another entry with the same normalized vector
CX_C15_InsertSearchRoundTrip ==
    [][\A t \in Threads :
          (/\ SearchReturns(t)
           /\ last_mutation.op = "add"
           /\ last_mutation.game = thr'[t].game
           /\ last_mutation.embedding = normalize_L2(thr'[t].embedding)
           /\ last_mutation.effectiveness_score >= thr'[t].min_effectiveness)
          => /\ Len(thr'[t].result) >= 1
             /\ Entries(thr'[t].game)[thr'[t].result[1].idx + 1].embedding
                    = last_mutation.embedding]_vars

\* the vectors and the entries a game's store holds (none for a game that
\* has no store)
StoreContent(game) ==
    IF game \in DOMAIN indexes
    THEN [index |-> heap[indexes[game]], metadata |-> metadata[game]]
    ELSE [index |-> <<>>, metadata |-> <<>>]

\* C16: an Insert of a vector whose length differs from the dimension
\* fails (add_context raises), leaves the tenant's index and metadata as
\* they were, in its step before the lock and in its step under it, and
\* leaves the tenant's lock free for later calls
C16_DimensionMismatchFails ==
    [][\A t \in Threads :
          /\ (/\ thr[t].pc = "idle" /\ thr'[t].pc = "add_wait"
              /\ thr'[t].embedding.d # dimension)
             => \A g \in StoreGames : StoreContent(g)' = StoreContent(g)
          /\ (/\ thr[t].pc = "add_wait" /\ thr'[t].pc = "idle"
              /\ thr[t].embedding.d # dimension)
             => /\ thr'[t].ret = "raised"
                /\ \A g \in StoreGames : StoreContent(g)' = StoreContent(g)
                /\ heap' = heap
                /\ entry_counts' = entry_counts
                /\ LockFree(thr[t].game)']_vars

\* an Insert of a vector of a wrong length has raised on a store that holds
\* entries
W_C16_DimensionMismatchFails ==
    \E t \in Threads :
        /\ thr[t].pc = "idle" /\ thr[t].op = "add"
        /\ thr[t].ret = "raised"
        /\ Len(Entries(thr[t].game)) >= 1

\* C17: no tenant's store holds two entries with the same entryID
CX_C17_EntryIdUnique ==
    \A game \in DOMAIN metadata :
        \A i, j \in 1..Len(metadata[game]) :
            i # j => metadata[game][i].context_id # metadata[game][j].context_id

\* what identifies an entry and what it carries: the entryID, the vector
\* it was inserted with, the score (not its position in the index)
EntryOf(metadata_entry) ==
    [context_id |-> metadata_entry.context_id,
     embedding |-> metadata_entry.embedding,
     effectiveness_score |-> metadata_entry.effectiveness_score]

\* the entries of a metadata list, in order, that reach min_effectiveness
RECURSIVE KeptEntries(_, _)
KeptEntries(meta, min_effectiveness) ==
    IF meta = <<>> THEN <<>>
    ELSE LET rest == KeptEntries(Tail(meta), min_effectiveness)
         IN IF Head(meta).effectiveness_score >= min_effectiveness
            THEN <<EntryOf(Head(meta))>> \o rest ELSE rest

\* C18: Remove returns the number of entries removed, the count before
\* minus the count after; afterwards no entry is under the threshold, and
\* the entries at or over it are all there, unchanged and in their order
CX_C18_RemoveKeepsTheRest ==
    [][\A t \in Threads :
          (/\ thr[t].op = "remove"
           /\ thr[t].pc \in {"remove_wait", "remove_rebuild"}
           /\ thr'[t].pc = "idle")
          => LET game == thr[t].game
                 before == IF thr[t].pc = "remove_rebuild"
                           THEN thr[t].old_metadata ELSE metadata[game]
                 after == metadata'[game]
             IN /\ thr'[t].ret = Len(before) - Len(after)
                /\ \A i \in 1..Len(after) :
                       after[i].effectiveness_score >= thr[t].min_effectiveness
                /\ [i \in 1..Len(after) |-> EntryOf(after[i])]
                       = KeptEntries(before, thr[t].min_effectiveness)]_vars

\* C19: write-through persistence: once a mutation of a tenant's store
\* (Insert, UpdateScore, Remove, rebuild) is complete, the persisted index
\* and metadata are the in-memory ones, which is what a restarted process
\* loads
CX_C19_WriteThrough ==
    \A game \in StoreGames :
        (/\ last_mutation.op # "none"
         /\ last_mutation.game = game
         /\ LockFree(game))
        => /\ game \in DOMAIN disk.index
           /\ game \in DOMAIN disk.metadata
           /\ disk.index[game] = heap[indexes[game]]
           /\ disk.metadata[game] = metadata[game]

\* the entries the records of the Record Store give: one for every context
\* that has a vector, in the order of the records, with the normalized
\* vector and the mean score of the context's actions
RECURSIVE Derivable(_)
Derivable(contexts) ==
    IF contexts = <<>> THEN <<>>
    ELSE LET context == Head(contexts)
         IN IF context.embedding_vector = NoVector
            THEN Derivable(Tail(contexts))
            ELSE <<[context_id |-> context.context_id,
                    embedding |-> normalize_L2(context.embedding_vector),
                    effectiveness_score |-> avg_effectiveness(context.scores)]>>
                 \o Derivable(Tail(contexts))

\* C20: when RebuildFromSource has completed, the tenant's index and
\* metadata hold exactly the entries derivable from the Record Store, none
\* when the Record Store has no record of the tenant
CX_C20_RebuildFromSource ==
    [][\A t \in Threads :
          (/\ thr'[t].op = "rebuild"
           /\ thr'[t].at = calls'
           /\ calls' = calls + 1)
          => \A game \in StoreGames : thr'[t].game = game =>
                LET after == StoreContent(game)'
                    entries == Derivable(thr'[t].contexts)
                IN /\ [i \in 1..Len(after.metadata) |-> EntryOf(after.metadata[i])]
                       = entries
                   /\ [i \in 1..Len(after.index) |-> after.index[i].vec]
                       = [i \in 1..Len(entries) |-> entries[i].embedding]]_vars

\* C5: a Compact triggered while another Compact for the same tenant is in
\* flight is dropped: it never performs a rebuild
CX_C5_SingleFlightCompaction ==
    \A t \in Threads : thr[t].overlap => thr[t].pc # "remove_rebuild"


\* thread t has just made the call of update_effectiveness_score
UpdateStep(t) ==
    /\ calls' = calls + 1
    /\ thr'[t].op = "update" /\ thr'[t].at = calls'

\* the entries of a game's metadata list with a context_id
Known(game, context_id) ==
    IF game \in DOMAIN metadata
        THEN {i \in 1..Len(metadata[game]) : metadata[game][i].context_id = context_id}
        ELSE {}

\* C24: update_effectiveness_score returns without error and never touches
\* index, lock or counter; for a context_id the game's metadata does not
\* hold, metadata and files stay as they are; for one it holds, at most one
\* entry with that context_id changes, in its effectiveness_score alone,
\* which becomes the new score (same length, same order, same vectors, every
\* other entry and every other game as before).
C24_UpdateScoreFrame ==
    [][\A t \in Threads : UpdateStep(t) =>
          LET game == thr'[t].game
              context_id == thr'[t].context_id
          IN /\ thr'[t].pc = "idle"
             /\ thr'[t].ret \in {"not_found", "updated"}
             /\ <<indexes, heap, index_locks, entry_counts>>' =
                    <<indexes, heap, index_locks, entry_counts>>
             /\ DOMAIN metadata' = DOMAIN metadata
             /\ Known(game, context_id) = {} => thr'[t].ret = "not_found"
             /\ IF thr'[t].ret = "not_found"
                    THEN /\ metadata' = metadata
                         /\ disk' = disk
                    ELSE /\ \A g \in DOMAIN metadata \ {game} : metadata'[g] = metadata[g]
                         /\ Len(metadata'[game]) = Len(metadata[game])
                         /\ \E k \in Known(game, context_id) :
                                \A i \in 1..Len(metadata[game]) :
                                    metadata'[game][i] =
                                        IF i = k
                                            THEN [metadata[game][i] EXCEPT
                                                     !.effectiveness_score =
                                                         thr'[t].effectiveness_score]
                                            ELSE metadata[game][i]]_vars

\* an update of a known context has been made on a list that holds an entry
\* with another score as well
W_C24_UpdateScoreFrame ==
    \E t \in Threads :
        /\ thr[t].op = "update" /\ thr[t].ret = "updated" /\ thr[t].at = calls
        /\ Len(metadata[thr[t].game]) > 1
        /\ \E i \in 1..Len(metadata[thr[t].game]) :
               /\ metadata[thr[t].game][i].context_id = thr[t].context_id
               /\ metadata[thr[t].game][i].effectiveness_score = thr[t].effectiveness_score
        /\ \E i \in 1..Len(metadata[thr[t].game]) :
               metadata[thr[t].game][i].effectiveness_score # thr[t].effectiveness_score

\* thread t has just begun a search of the game; a call that leaves the
\* thread's record as it was (the same search made again, with the same
\* result) is a QuietCall
SearchStep(t, game) ==
    /\ calls' = calls + 1
    /\ thr'[t] # thr[t]
    /\ thr'[t].op = "search" /\ thr'[t].game = game

QuietCall == calls' = calls + 1 /\ thr' = thr

\* the game has no index, or an index without vectors
NothingToSearch(game) ==
    IF game \in DOMAIN indexes THEN Len(heap[indexes[game]]) = 0 ELSE TRUE

\* C25: search_similar_contexts of a game that has no index, or whose index
\* holds no vector, returns [] at once, and nothing of the store is made or
\* changed: indexes, index objects, metadata, locks, counters and files.
C25_EmptySearch ==
    [][/\ \A t \in Threads, game \in StoreGames :
             SearchStep(t, game) /\ NothingToSearch(game) =>
                 /\ thr'[t].pc = "idle"
                 /\ thr'[t].result = <<>>
                 /\ <<indexes, heap, metadata, index_locks, entry_counts, disk,
                       last_mutation>>' =
                    <<indexes, heap, metadata, index_locks, entry_counts, disk,
                      last_mutation>>
       /\ QuietCall =>
              <<indexes, heap, metadata, index_locks, entry_counts, disk,
                last_mutation>>' =
              <<indexes, heap, metadata, index_locks, entry_counts, disk,
                last_mutation>>]_vars

\* a search has returned [] for a game whose index exists and holds no
\* vector
W_C25_EmptySearch ==
    \E t \in Threads :
        /\ thr[t].op = "search" /\ thr[t].pc = "idle" /\ thr[t].result = <<>>
        /\ thr[t].game \in DOMAIN indexes
        /\ Len(heap[indexes[thr[t].game]]) = 0
        /\ \A u \in Threads \ {t} : thr[u].pc = "idle"

\* what the store holds of a game: the vectors of its index, its metadata
\* list and its count of entries added
TenantStore(game) ==
    [index |-> IF game \in DOMAIN indexes THEN <<heap[indexes[game]]>> ELSE <<>>,
     metadata |-> IF game \in DOMAIN metadata THEN <<metadata[game]>> ELSE <<>>,
     entry_counts |-> IF game \in DOMAIN entry_counts THEN <<entry_counts[game]>>
                      ELSE <<>>]

\* C26: a step of a call made for one game (insert, failing insert, score
\* update, remove, rebuild) leaves index, metadata and entry count of every
\* other game as they were: whenever a game's store changes, the thread that
\* moved is in a call for that game.
C26_TenantIsolation ==
    [][\A game \in Games :
          [index |-> IF game \in DOMAIN indexes' THEN <<heap'[indexes'[game]]>> ELSE <<>>,
           metadata |-> IF game \in DOMAIN metadata' THEN <<metadata'[game]>> ELSE <<>>,
           entry_counts |-> IF game \in DOMAIN entry_counts'
                                THEN <<entry_counts'[game]>> ELSE <<>>]
              # TenantStore(game)
          => \E t \in Threads : /\ thr'[t] # thr[t]
                                /\ thr'[t].game = game
                                /\ \A u \in Threads \ {t} : thr'[u] = thr[u]]_vars

\* both games hold entries, an insert for one of them has failed and a
\* score update for the other was applied
W_C26_TenantIsolation ==
    /\ \A game \in Games : game \in DOMAIN metadata /\ metadata[game] # <<>>
    /\ \E t, u \in Threads :
           /\ thr[t].pc = "idle" /\ thr[t].op = "add" /\ thr[t].ret = "raised"
           /\ thr[u].pc = "idle" /\ thr[u].op = "update" /\ thr[u].ret = "updated"
           /\ thr[t].game # thr[u].game

\* C27: once the calls made have returned, a context whose actions have
\* outcomes has one entry in the game's store, with the mean of the
\* outcome scores as its effectiveness_score.
CX_C27_StoreScoreIsMean ==
    (\A t \in Threads : thr[t].pc = "idle") =>
        \A game \in StoreGames, context_id \in DOMAIN action_scores :
            /\ game \in DOMAIN metadata
            /\ Cardinality(Known(game, context_id)) = 1
            /\ \A i \in Known(game, context_id) :
                   metadata[game][i].effectiveness_score * Len(action_scores[context_id])
                       = Sum(action_scores[context_id])

\* the threads inside a section of the game's store that its lock is there
\* to guard: the making of the index in get_or_create_index, the rebuild of
\* rebuild_index_from_db, the rebuild of remove_ineffective_contexts
InsideSection(game) ==
    {t \in Threads : /\ thr[t].game = game
                     /\ thr[t].pc \in {"create", "rebuild_inside", "remove_rebuild"}}

\* C28: at most one thread at a time is inside a mutating section of a
\* game's store.
CX_C28_MutualExclusion ==
    \A game \in StoreGames : Cardinality(InsideSection(game)) <= 1

\* C29: at no moment are two threads in the rebuild section of
\* remove_ineffective_contexts for the same game.
CX_C29_OneCompactionAtATime ==
    \A game \in StoreGames : Cardinality(Compacting(game)) <= 1

InsertStep(t, game) ==
    /\ thr[t].pc = "add_wait" /\ thr[t].game = game
    /\ thr'[t].pc = "idle"
    /\ metadata'[game] # metadata[game]

\* C33: compaction is triggered for a tenant exactly when the number of
\* mutations since the tenant's last compaction reaches the threshold: the
\* insert that brings the count to auto_optimize_threshold schedules the
\* compaction, and an insert that leaves it elsewhere schedules none
CX_C33_CompactionAtThreshold ==
    [][\A t \in Threads, game \in StoreGames : InsertStep(t, game) =>
           (thr'[t].ret = "optimize"
               <=> entry_counts'[game] = auto_optimize_threshold)]_vars

\* C37: whenever add_context raises to its caller, the index, the metadata,
\* the entry count and the files of the game are as they were, also on the
\* insert that reaches the auto-optimize threshold
CX_C37_InsertAtomic ==
    [][\A t \in Threads :
           (/\ thr[t].pc = "add_wait"
            /\ thr'[t].pc = "idle"
            /\ thr'[t].ret = "raised")
               => UNCHANGED <<heap, metadata, entry_counts, disk>>]_vars

\* no call that changes the game's store is under way
NoMutationInProgress(game) ==
    \A t \in Threads : thr[t].game = game => thr[t].pc \in {"idle", "search_wait"}

\* C38: whenever no mutation of a game's store is in progress, the index
\* holds as many vectors as the metadata list holds entries, and the entry
\* at each list position has that position as its index_position
CX_C38_IndexMetadataAligned ==
    \A game \in DOMAIN indexes \cap DOMAIN metadata : NoMutationInProgress(game) =>
        /\ Len(heap[indexes[game]]) = Len(metadata[game])
        /\ \A i \in 1..Len(metadata[game]) : metadata[game][i].index_position = i - 1

max_retries == 3
\* the calls of generate_boss_action made in a run
MaxGen == 2
\* request inputs on both sides of the two tests of _create_fallback_action
InputDodge == {7, 8}
InputHealth == {2, 3}
InputPhases == {"phase_1", "final"}
\* what one requests.post of the retry loop can come to: a 200 response that
\* parses, a 200 response that does not, another status, a Timeout, a
\* RequestException
AttemptOutcomes == {"ok", "unparsable", "status", "timeout", "request_error"}
NoContext == [dodge_frequency |-> 0, none |-> TRUE]
NoAction == [boss_action |-> "none", action_type |-> "none", intensity |-> 0,
             reasoning |-> "none"]
\* the action a 200 response that parses is turned into
GeneratedAction == [boss_action |-> "generated", action_type |-> "generated",
                    intensity |-> 10, reasoning |-> "Decision"]

create_fallback_action(player_context, boss_health, battle_phase) ==
    LET action == IF ~player_context.none /\ player_context.dodge_frequency > 7
                      THEN [name |-> "area_attack", intensity |-> 6]
                  ELSE IF boss_health < 3
                      THEN [name |-> "desperate_strike", intensity |-> 8]
                  ELSE [name |-> "basic_attack", intensity |-> 5]
    IN [boss_action |-> action.name, action_type |-> "attack",
        intensity |-> action.intensity,
        reasoning |-> "Fallback action due to API unavailability"]

\* _parse_boss_action_response: a response that does not parse becomes the
\* fallback of no context, full health, phase "unknown"
parse_boss_action_response(parses) ==
    IF parses THEN GeneratedAction ELSE create_fallback_action(NoContext, 10, "unknown")

M_C23_exhausted(g) == [g EXCEPT !.pc = "raised", !.exhausted = TRUE]

\* the last attempt failed: the Exception raised inside the loop is caught by
\* the outer except, which returns the fallback of the call's own arguments
exhausted(g) ==
    [g EXCEPT !.pc = "returned", !.exhausted = TRUE,
              !.action = create_fallback_action(g.player_context, g.boss_health,
                                                g.battle_phase)]

\* a call of generate_boss_action begins
GenCall ==
    /\ Len(gen) < MaxGen
    /\ \E d \in InputDodge, h \in InputHealth, phase \in InputPhases :
           gen' = Append(gen, [player_context |-> [dodge_frequency |-> d, none |-> FALSE],
                               boss_health |-> h, battle_phase |-> phase,
                               attempt |-> 0, pc |-> "attempt", exhausted |-> FALSE,
                               action |-> NoAction, message |-> "none"])
    /\ UNCHANGED <<regVars, sockets, now, last, reqVars, storeVars, dbVars, logVars, lockVars, cacheVars>>

\* one pass of "for attempt in range(self.max_retries)"
GenAttempt ==
    /\ \E i \in 1..Len(gen), outcome \in AttemptOutcomes :
           /\ gen[i].pc = "attempt"
           /\ gen[i].attempt < max_retries
           /\ gen' = [gen EXCEPT ![i] =
                  IF outcome \in {"ok", "unparsable"}
                      THEN [@ EXCEPT !.pc = "returned",
                                     !.action = parse_boss_action_response(outcome = "ok")]
                  ELSE IF @.attempt = max_retries - 1
                      THEN exhausted(@)
                  ELSE [@ EXCEPT !.attempt = @ + 1]]
    /\ UNCHANGED <<regVars, sockets, now, last, reqVars, storeVars, dbVars, logVars, lockVars, cacheVars>>

\* the worker of the request, the rest of the pipeline succeeding: the action
\* returned goes out as boss_action_response, an exception as error
GenRespond ==
    /\ \E i \in 1..Len(gen) :
           /\ gen[i].pc \in {"returned", "raised"}
           /\ gen' = [gen EXCEPT ![i] =
                  [@ EXCEPT !.pc = "sent",
                            !.message = IF gen[i].pc = "returned"
                                            THEN "boss_action_response" ELSE "error"]]
    /\ UNCHANGED <<regVars, sockets, now, last, reqVars, storeVars, dbVars, logVars, lockVars, cacheVars>>

NextGen == GenCall \/ GenAttempt \/ GenRespond
InitGen == InitState("off")
SpecGen == InitGen /\ [][NextGen]_vars

====
